---------------------------- MODULE Spec2Model ----------------------------
(***************************************************************************)
(* RC section design-check engine of rcDesigner (gptils.py, gptils_2.py,   *)
(* utils.py, rcDesigner.py).                                               *)
(*                                                                         *)
(* The engine is a library of pure functions over Python floats.  A float  *)
(* is an IEEE double, modelled as the record [neg, num, exp] of the number *)
(* num * 2^exp it stands for; num is a natural of unbounded size (a        *)
(* sequence of base-BASE limbs, least significant first).  +, -, *, / and  *)
(* math.sqrt give the double nearest to the exact result, ties to the even *)
(* mantissa, as Python does; x ** y gives what the pow of the C library    *)
(* gives, which need not be the nearest double (float_pow).  Overflow,     *)
(* underflow and subnormal numbers are left out.  The Python value None is *)
(* the record NoneVal, a raised ValueError the record ValueErrorVal, a     *)
(* float x the record Val(x).                                              *)
(***************************************************************************)
EXTENDS Integers, Sequences, FiniteSets, TLC

(***************************************************************************)
(* Naturals of unbounded size.                                             *)
(***************************************************************************)
BASE == 16384

\* the element of a one-element set.  The({e : x \in {x0}}) is e with x0
\* for x, written so that TLC evaluates x0 to a value once, before e.  The
\* recursive definitions below are functions of a tuple for the same reason:
\* a function's argument is a value before the function is applied.
The(S) == CHOOSE r \in S : TRUE

Limbs == Seq(Nat)

\* limb i of a natural, 0 beyond its length
L(a, i) == IF i >= 1 /\ i <= Len(a) THEN a[i] ELSE 0

NTrim(s0) ==
    The({ SubSeq(s, 1, CHOOSE k \in 0..Len(s) :
                           /\ k = 0 \/ s[k] # 0
                           /\ \A j \in (k + 1)..Len(s) : s[j] = 0)
          : s \in {s0} })

NFromInt[i \in Nat] ==
    IF i = 0 THEN <<>> ELSE <<i % BASE>> \o NFromInt[i \div BASE]

\* limbs i.. of a + b + c * BASE^(i-1), for t = <<a, b, i, c>>
NAddFrom[t \in Limbs \X Limbs \X Nat \X Nat] ==
    LET a == t[1]
        b == t[2]
        i == t[3]
        x == L(a, i) + L(b, i) + t[4]
    IN  IF i > Len(a) /\ i > Len(b)
        THEN (IF t[4] = 0 THEN <<>> ELSE <<t[4]>>)
        ELSE <<x % BASE>> \o NAddFrom[<<a, b, i + 1, x \div BASE>>]

NAdd(a, b) == NAddFrom[<<a, b, 1, 0>>]

\* -1, 0, 1 as a < b, a = b, a > b
NCmp(a0, b0) ==
    The({ IF Len(a) < Len(b) THEN -1
          ELSE IF Len(a) > Len(b) THEN 1
          ELSE IF a = b THEN 0
          ELSE IF LET i == CHOOSE i \in 1..Len(a) :
                               /\ a[i] # b[i]
                               /\ \A j \in (i + 1)..Len(a) : a[j] = b[j]
                  IN  a[i] < b[i]
               THEN -1
          ELSE 1
          : a \in {a0}, b \in {b0} })

\* limbs i.. of a - b - c * BASE^(i-1), for t = <<a, b, i, c>>
NSubFrom[t \in Limbs \X Limbs \X Nat \X Nat] ==
    LET a == t[1]
        b == t[2]
        i == t[3]
        x == a[i] - L(b, i) - t[4]
    IN  IF i > Len(a) THEN <<>>
        ELSE IF x < 0 THEN <<x + BASE>> \o NSubFrom[<<a, b, i + 1, 1>>]
        ELSE <<x>> \o NSubFrom[<<a, b, i + 1, 0>>]

\* a - b for a >= b
NSub(a, b) == NTrim(NSubFrom[<<a, b, 1, 0>>])

\* limbs i.. of a * k + c * BASE^(i-1), for t = <<a, k, i, c>>
NMulSmallFrom[t \in Limbs \X Nat \X Nat \X Nat] ==
    IF t[3] > Len(t[1])
    THEN (IF t[4] = 0 THEN <<>> ELSE <<t[4]>>)
    ELSE The({ <<x % BASE>>
               \o NMulSmallFrom[<<t[1], t[2], t[3] + 1, x \div BASE>>]
               : x \in {t[1][t[3]] * t[2] + t[4]} })

\* a * k for 0 <= k <= BASE
NMulSmall(a, k0) ==
    The({ IF k = 0 THEN <<>> ELSE NMulSmallFrom[<<a, k, 1, 0>>] : k \in {k0} })

\* a * BASE^k
NShift(a0, k) ==
    The({ IF a = <<>> THEN a ELSE [i \in 1..k |-> 0] \o a : a \in {a0} })

\* a * (limbs j.. of b) + acc * BASE^(Len(b) - j + 1), shifted down to
\* limb j, for t = <<a, b, j, acc>>
NMulFrom[t \in Limbs \X Limbs \X Nat \X Limbs] ==
    LET a == t[1]
        b == t[2]
        j == t[3]
    IN  IF j = 0 THEN t[4]
        ELSE NMulFrom[<<a, b, j - 1,
                        NAdd(NMulSmall(a, b[j]), NShift(t[4], 1))>>]

NMul(a0, b0) ==
    The({ IF a = <<>> \/ b = <<>> THEN <<>>
          ELSE NMulFrom[<<a, b, Len(b), <<>>>>]
          : a \in {a0}, b \in {b0} })

\* the largest q <= qhat with b * q <= rem, for t = <<b, rem, qhat>>
NFitDigit[t \in Limbs \X Limbs \X Nat] ==
    IF NCmp(NMulSmall(t[1], t[3]), t[2]) > 0
    THEN NFitDigit[<<t[1], t[2], t[3] - 1>>]
    ELSE t[3]

\* the first guess of the quotient digit cur \div b, from the top limbs
NGuessDigit(b, cur) ==
    LET n   == Len(b)
        est == (L(cur, n + 1) * BASE + L(cur, n)) \div b[n]
    IN  IF est > BASE - 1 THEN BASE - 1 ELSE est

\* the digit q = cur \div b joins the quotient and cur % b is the new
\* remainder, for t = <<b, cur, quot, q>>
NDivDigit[t \in Limbs \X Limbs \X Limbs \X Nat] ==
    <<NSub(t[2], NMulSmall(t[1], t[4])), Append(t[3], t[4])>>

\* one digit of the long division, for t = <<b, cur, quot>> with
\* cur < b * BASE and b normalised (top limb >= BASE \div 2)
NDivStep[t \in Limbs \X Limbs \X Limbs] ==
    NDivDigit[<<t[1], t[2], t[3],
                NFitDigit[<<t[1], t[2], NGuessDigit(t[1], t[2])>>]>>]

\* the remainder and the quotient of a by b, the quotient most significant
\* limb first, for t = <<a, b, i, <<rem, quot>>>> where rem and quot are
\* the remainder and the quotient of the limbs above i
NDivFrom[t \in Limbs \X Limbs \X Nat \X (Limbs \X Limbs)] ==
    LET a == t[1]
        b == t[2]
        i == t[3]
    IN  IF i = 0 THEN t[4]
        ELSE NDivFrom[<<a, b, i - 1,
                        NDivStep[<<b, NTrim(<<a[i]>> \o t[4][1]), t[4][2]>>]>>]

NReverse(s0) ==
    The({ [i \in 1..Len(s) |-> s[Len(s) + 1 - i]] : s \in {s0} })

\* <<floor(a / b), whether b divides a>> for b # 0.  a and b are scaled to
\* make the top limb of b BASE \div 2 or more
NDivRem(a0, b0) ==
    The({ The({ <<NTrim(NReverse(rq[2])), rq[1] = <<>> >>
                : rq \in {NDivFrom[<<an, bn, Len(an), <<<<>>, <<>>>>>>]} })
          : an \in {NMulSmall(a0, BASE \div (b0[Len(b0)] + 1))},
            bn \in {NMulSmall(b0, BASE \div (b0[Len(b0)] + 1))} })

\* floor(a / b) for b # 0
NDiv(a, b) == NDivRem(a, b)[1]

\* Newton's iteration on integers, for t = <<v, x, (x + v \div x) \div 2>>
ISqrtFrom[t \in Nat \X Nat \X Nat] ==
    IF t[3] >= t[2] THEN t[2]
    ELSE ISqrtFrom[<<t[1], t[3], (t[3] + t[1] \div t[3]) \div 2>>]

\* floor(sqrt(v)) for 0 <= v < BASE^2
ISqrt(v0) ==
    The({ IF v = 0 THEN 0
          ELSE ISqrtFrom[<<v, BASE, (BASE + v \div BASE) \div 2>>]
          : v \in {v0} })

\* floor(a / 2)
NHalf(a0) ==
    The({ IF a = <<>> THEN a ELSE NTrim(Tail(NMulSmall(a, BASE \div 2)))
          : a \in {a0} })

\* Newton's iteration x -> (x + a \div x) \div 2 until it stops decreasing,
\* for t = <<a, x>>
NSqrtFrom[t \in Limbs \X Limbs] ==
    The({ IF NCmp(y, t[2]) >= 0 THEN t[2] ELSE NSqrtFrom[<<t[1], y>>]
          : y \in {NHalf(NAdd(t[2], NDiv(t[1], t[2])))} })

\* a start of the iteration above the root of a
NSqrtStart(a) ==
    [i \in 1..((Len(a) - 1) \div 2) |-> 0]
    \o NFromInt[ISqrt(IF Len(a) % 2 = 1 THEN a[Len(a)]
                      ELSE a[Len(a)] * BASE + a[Len(a) - 1]) + 1]

\* floor(sqrt(a)), by Newton's iteration from a start above the root
NSqrt(a0) ==
    The({ IF a = <<>> THEN <<>> ELSE NSqrtFrom[<<a, NSqrtStart(a)>>]
          : a \in {a0} })

\* the number of bits of a limb 1 <= v < BASE = 2^14
LimbBits(v) == CHOOSE k \in 1..14 : 2^(k - 1) <= v /\ v < 2^k

\* the number of bits of a natural
NBits(a0) ==
    The({ IF a = <<>> THEN 0 ELSE 14 * (Len(a) - 1) + LimbBits(a[Len(a)])
          : a \in {a0} })

\* a * 2^k
NShl(a, k0) == The({ NShift(NMulSmall(a, 2^(k % 14)), k \div 14) : k \in {k0} })

\* floor(a / 2^k): a * 2^(14 - k % 14) without its k \div 14 + 1 low limbs
NShr(a, k0) ==
    The({ SubSeq(s, (k0 \div 14) + 2, Len(s))
          : s \in {NMulSmall(a, 2^(14 - (k0 % 14)))} })

\* the number of zero limbs at the low end of a # 0
NZeros(a) ==
    (CHOOSE k \in 1..Len(a) : a[k] # 0 /\ \A j \in 1..(k - 1) : a[j] = 0) - 1

\* the number of zero bits at the low end of a # 0
NTwos(a0) ==
    The({ 14 * z + (CHOOSE k \in 0..13 : /\ a0[z + 1] % 2^(k + 1) # 0
                                         /\ a0[z + 1] % 2^k = 0)
          : z \in {NZeros(a0)} })

\* a / b for naturals a and b # 0, rounded to the nearest natural and to
\* the even one on a tie
NDivHalfEven(a0, b0) ==
    The({ The({ IF c > 0 \/ (c = 0 /\ L(q, 1) % 2 = 1)
                THEN NAdd(q, <<1>>) ELSE q
                : c \in {NCmp(NMulSmall(NSub(a, NMul(b, q)), 2), b)} })
          : a \in {a0}, b \in {b0}, q \in {NDiv(a0, b0)} })

(***************************************************************************)
(* Python floats: the IEEE doubles, each the number num * 2^exp of a       *)
(* record [neg, num, exp] with num an odd natural below 2^53; 0.0 is       *)
(* RZero.  Two floats are equal when their records are.                    *)
(***************************************************************************)
RZero == [neg |-> FALSE, num |-> <<>>, exp |-> 0]

\* the float m * 2^e for a natural m that is a double's mantissa: the low
\* zero bits of m move to the exponent
RBinary(neg, m0, e) ==
    The({ IF m = <<>> THEN RZero
          ELSE The({ [neg |-> neg, num |-> NShr(m, z), exp |-> e + z]
                     : z \in {NTwos(m)} })
          : m \in {m0} })

\* n, a natural of two bits or more, without its lowest bit and rounded to
\* the nearest, to the even one on a tie, times 2: up tells that the
\* number n stands for has bits below n
RHalfEven(n, up) ==
    IF n[1] % 2 = 0 THEN n
    ELSE IF up \/ n[1] % 4 = 3 THEN NAdd(n, <<1>>)
    ELSE [n EXCEPT ![1] = @ - 1]

\* the Python float of (n + f) * 2^e for a natural n and 0 <= f < 1, where
\* sticky tells f # 0 and then n has 55 bits or more: the double nearest
\* to it, the one of even mantissa on a tie (within the range of the
\* normal doubles).  Of a natural of more than 53 bits the top 54 are
\* kept, and the lowest of these is rounded away
RToDouble(neg, n0, e, sticky) ==
    The({ The({ RBinary(neg,
                        IF k <= 0 THEN n
                        ELSE The({ RHalfEven(t, sticky \/ NShl(t, k - 1) # n)
                                   : t \in {NShr(n, k - 1)} }),
                        IF k <= 0 THEN e ELSE e + k - 1)
                : k \in {NBits(n) - 53} })
          : n \in {n0} })

\* the float of the integer i
R(i) == RBinary(i < 0, NFromInt[IF i < 0 THEN -i ELSE i], 0)

RNeg(x) ==
    The({ IF a.num = <<>> THEN a ELSE [a EXCEPT !.neg = ~a.neg] : a \in {x} })

RSign(x) ==
    The({ IF a.num = <<>> THEN 0 ELSE IF a.neg THEN -1 ELSE 1 : a \in {x} })

\* -1, 0, 1 as x < y, x = y, x > y
RCmp(x, y) ==
    The({ IF RSign(a) # RSign(b) THEN (IF RSign(a) < RSign(b) THEN -1 ELSE 1)
          ELSE The({ RSign(a) * NCmp(NShl(a.num, a.exp - e),
                                     NShl(b.num, b.exp - e))
                     : e \in {IF a.exp < b.exp THEN a.exp ELSE b.exp} })
          : a \in {x}, b \in {y} })

RLt(x, y) == RCmp(x, y) < 0
RLe(x, y) == RCmp(x, y) <= 0
REq(x, y) == RCmp(x, y) = 0

\* x * y of floats: the exact product rounded to the nearest double
RMul(x, y) ==
    The({ RToDouble(a.neg # b.neg, NMul(a.num, b.num), a.exp + b.exp, FALSE)
          : a \in {x}, b \in {y} })

\* the float of (p / q) * 2^e for naturals p and q # 0: the quotient of
\* p * 2^s by q is taken to 55 bits or more
RQuotient(neg, p0, q0, e) ==
    The({ The({ RToDouble(neg, d[1], e - s, ~d[2])
                : d \in {NDivRem(NShl(p, s), q)} })
          : p \in {p0}, q \in {q0},
            s \in {IF 55 + NBits(q0) - NBits(p0) > 0
                   THEN 55 + NBits(q0) - NBits(p0) ELSE 0} })

\* x / y of floats, y # 0: the exact quotient rounded to the nearest double
RDiv(x, y) ==
    The({ RQuotient(a.neg # b.neg, a.num, b.num, a.exp - b.exp)
          : a \in {x}, b \in {y} })

\* the float literal i / j, j > 0 (0.85 is RQ(85, 100)): the double nearest
\* to the decimal number
RQ(i, j) == RQuotient(i < 0, NFromInt[IF i < 0 THEN -i ELSE i], NFromInt[j], 0)

\* the float of ((-1)^pneg p + (-1)^qneg q) * 2^e for naturals p and q
RSum(pneg, qneg, p, q, e) ==
    The({ RToDouble(IF c >= 0 THEN pneg ELSE qneg,
                    IF pneg = qneg THEN NAdd(p, q)
                    ELSE NSub(IF c >= 0 THEN p ELSE q,
                              IF c >= 0 THEN q ELSE p),
                    e, FALSE)
          : c \in {NCmp(p, q)} })

\* x + y and x - y of floats: the exact result rounded to the nearest
\* double
RAdd(x, y) ==
    The({ The({ The({ RSum(a.neg, b.neg, p, q, e)
                      : p \in {NShl(a.num, a.exp - e)},
                        q \in {NShl(b.num, b.exp - e)} })
                : e \in {IF a.exp < b.exp THEN a.exp ELSE b.exp} })
          : a \in {x}, b \in {y} })

RSub(x, y) == RAdd(x, RNeg(y))

\* math.sqrt(x) and np.sqrt(x) for a float x >= 0: the double nearest to
\* the root.  x is n * 2^(exp - s) for n = num * 2^s, where s makes n a
\* natural of 110 bits or more and exp - s even; the root of n has 55 bits
\* or more, and it is the root of x when its square is n
RSqrt(x) ==
    The({ The({ The({ The({ RToDouble(FALSE, r, (a.exp - s) \div 2,
                                      NMul(r, r) # n)
                            : r \in {NSqrt(n)} })
                      : n \in {NShl(a.num, s)} })
                : s \in {110 - NBits(a.num)
                         + ((a.exp - 110 + NBits(a.num)) % 2)} })
          : a \in {x} })

\* the double num * 2^exp for an odd natural num below 2^53
Double(neg, num, exp) == [neg |-> neg, num |-> num, exp |-> exp]

\* the terms p * 2^pe and q * 2^qe of a sum as naturals p and q over one
\* exponent e.  A term that lies wholly below the bits of the other and
\* three bits or more below the place where the sum is rounded only tells
\* to which side the sum is rounded: one unit at the exponent e stands for it
RSumTerms(p, pe, q, qe) ==
    The({ IF p = <<>> \/ q = <<>>
          THEN [p |-> p, q |-> q, e |-> IF p = <<>> THEN qe ELSE pe]
          ELSE IF t.qtop <= t.pfloor
          THEN [p |-> NShl(p, pe - t.pfloor), q |-> <<1>>, e |-> t.pfloor]
          ELSE IF t.ptop <= t.qfloor
          THEN [p |-> <<1>>, q |-> NShl(q, qe - t.qfloor), e |-> t.qfloor]
          ELSE [p |-> NShl(p, pe - t.e), q |-> NShl(q, qe - t.e), e |-> t.e]
          : t \in {[ptop |-> pe + NBits(p), qtop |-> qe + NBits(q),
                    pfloor |-> (IF NBits(p) < 56 THEN pe + NBits(p) - 56
                                ELSE pe) - 2,
                    qfloor |-> (IF NBits(q) < 56 THEN qe + NBits(q) - 56
                                ELSE qe) - 2,
                    e |-> IF pe < qe THEN pe ELSE qe]} })

\* x * y + z of floats in one rounding, the fused multiply-add of the
\* processor: the exact result rounded to the nearest double.  x + z is
\* RFma(x, 1.0, z), x * y is RFma(x, y, 0.0)
RFma(x, y, z) ==
    The({ The({ RSum(a.neg # b.neg, c.neg, t.p, t.q, t.e)
                : t \in {RSumTerms(NMul(a.num, b.num), a.exp + b.exp,
                                   c.num, c.exp)} })
          : a \in {x}, b \in {y}, c \in {z} })

\* the integer of a natural below BASE^2
NToInt(a) == L(a, 1) + BASE * L(a, 2)

\* the integer that a float of an integer below 2^27 stands for
RToInt(x) ==
    The({ IF a.num = <<>> THEN 0
          ELSE (IF a.neg THEN -1 ELSE 1) * NToInt(NShl(a.num, a.exp))
          : a \in {x} })

\* the binary exponent e of a float x # 0, |x| = 1.f * 2^e, and the top 20
\* of the 52 bits of f
RExponent(x) == x.exp + NBits(x.num) - 1
RFraction20(x) ==
    NToInt(NShr(NShl(x.num, 53 - NBits(x.num)), 32)) - 1048576

(***************************************************************************)
(* x ** y of Python floats is the pow of the C library, here the one of    *)
(* glibc 2.36 as it runs on an x86-64 processor with fused multiply-add    *)
(* (sysdeps/ieee754/dbl-64/e_pow.c with its data e_pow_log_data.c and      *)
(* e_exp_data.c).  It is not the double nearest to the power: it is within *)
(* 0.52 ulp of the power, so that 574.429**2 is not 574.429 * 574.429 and  *)
(* 836.7**0.5 is not math.sqrt(836.7).  The function is a straight line of *)
(* floating-point operations between two table look-ups; the operations    *)
(* are listed in the order of the compiled function, with the              *)
(* multiply-adds that it fuses.                                            *)
(***************************************************************************)
\* a straight line of statements <<v, a, b, c>>, each v = a * b + c in one
\* rounding, run on the variables V (a function of their names): the
\* variables at its end.  The line is run by halves
RECURSIVE Fmas(_, _)
Fmas(V, statements) ==
    IF Len(statements) = 1
    THEN The({ (s[1] :> RFma(V[s[2]], V[s[3]], V[s[4]])) @@ V
               : s \in {statements[1]} })
    ELSE The({ Fmas(W, SubSeq(statements, (Len(statements) \div 2) + 1,
                              Len(statements)))
               : W \in {Fmas(V, SubSeq(statements, 1,
                                       Len(statements) \div 2))} })

\* e_pow_log_data.c and e_exp_data.c: ln2hi + ln2lo is ln 2, A0..A6 are
\* the coefficients of the polynomial of log(1 + r) - r; invln2N is
\* 128 / ln 2, shift is 0x1.8p52, negln2hiN + negln2loN is -ln 2 / 128 and
\* C2..C5 are the coefficients of the polynomial of exp(r) - 1 - r
PowData ==
    [one |-> R(1), mone |-> R(-1), zero |-> RZero,
     ln2hi |-> Double(FALSE, <<8007, 8575, 11356>>, -42),
     ln2lo |-> Double(FALSE, <<13939, 9457, 13143, 123>>, -93),
     A0 |-> Double(TRUE, <<1>>, -1),
     A1 |-> Double(TRUE, <<10923, 10922, 10922, 42>>, -48),
     A2 |-> Double(FALSE, <<3, 0, 0, 512>>, -52),
     A3 |-> Double(FALSE, <<10919, 12978, 3276, 819>>, -52),
     A4 |-> Double(TRUE, <<4669, 10835, 10922, 682>>, -52),
     A5 |-> Double(TRUE, <<1513, 11553, 5561, 1170>>, -52),
     A6 |-> Double(FALSE, <<16323, 11416, 696, 1024>>, -52),
     invln2N |-> Double(FALSE, <<383, 2647, 10811, 738>>, -44),
     shift |-> Double(FALSE, <<3>>, 51),
     negln2hiN |-> Double(TRUE, <<16253, 7301, 177>>, -43),
     negln2loN |-> Double(TRUE, <<7581, 14652, 15573, 926>>, -98),
     C2 |-> Double(FALSE, <<15805, 16383, 16383, 2047>>, -54),
     C3 |-> Double(FALSE, <<5391, 5461, 5461, 341>>, -53),
     C4 |-> Double(FALSE, <<11153, 15452, 5468, 1365>>, -57),
     C5 |-> Double(FALSE, <<4119, 7827, 4374, 1092>>, -59)]

\* e_pow_log_data.c: row i + 1 holds 1/c, log c and the tail of log c for
\* the centre c of subinterval i of [0x1.69555p-1, 0x1.69555p0)
PowLogTab ==
    <<[invc |-> Double(FALSE, <<181>>, -7),
       logc |-> Double(TRUE, <<5945, 377, 11353>>, -43),
       logctail |-> Double(FALSE, <<11949, 8513, 5764, 13>>, -93)],
      [invc |-> Double(FALSE, <<45>>, -5),
       logc |-> Double(TRUE, <<11009, 7903, 11171>>, -43),
       logctail |-> Double(TRUE, <<1977, 6940, 4740, 57>>, -93)],
      [invc |-> Double(FALSE, <<179>>, -7),
       logc |-> Double(TRUE, <<10411, 15243, 10988>>, -43),
       logctail |-> Double(TRUE, <<4205, 5849, 10829, 1240>>, -97)],
      [invc |-> Double(FALSE, <<89>>, -6),
       logc |-> Double(TRUE, <<9663, 5827, 10805>>, -43),
       logctail |-> Double(TRUE, <<10197, 15041, 3657, 1441>>, -101)],
      [invc |-> Double(FALSE, <<177>>, -7),
       logc |-> Double(TRUE, <<12015, 12234, 10620>>, -43),
       logctail |-> Double(TRUE, <<2551, 12901, 3508, 40>>, -94)],
      [invc |-> Double(FALSE, <<11>>, -3),
       logc |-> Double(TRUE, <<4323, 12664, 2608>>, -41),
       logctail |-> Double(FALSE, <<8499, 2124, 8381, 317>>, -96)],
      [invc |-> Double(FALSE, <<175>>, -7),
       logc |-> Double(TRUE, <<4309, 6211, 10248>>, -43),
       logctail |-> Double(FALSE, <<1437, 6916, 6047, 904>>, -101)],
      [invc |-> Double(FALSE, <<87>>, -6),
       logc |-> Double(TRUE, <<11561, 9770, 10060>>, -43),
       logctail |-> Double(FALSE, <<3235, 4298, 6371, 33>>, -92)],
      [invc |-> Double(FALSE, <<173>>, -7),
       logc |-> Double(TRUE, <<13617, 16108, 616>>, -39),
       logctail |-> Double(FALSE, <<73, 10635, 2670, 683>>, -96)],
      [invc |-> Double(FALSE, <<43>>, -5),
       logc |-> Double(TRUE, <<5897, 7255, 2420>>, -41),
       logctail |-> Double(FALSE, <<9595, 3291, 13885, 179>>, -94)],
      [invc |-> Double(FALSE, <<171>>, -7),
       logc |-> Double(TRUE, <<15313, 11529, 9490>>, -43),
       logctail |-> Double(FALSE, <<12351, 6974, 8523, 1394>>, -98)],
      [invc |-> Double(FALSE, <<171>>, -7),
       logc |-> Double(TRUE, <<15313, 11529, 9490>>, -43),
       logctail |-> Double(FALSE, <<12351, 6974, 8523, 1394>>, -98)],
      [invc |-> Double(FALSE, <<85>>, -6),
       logc |-> Double(TRUE, <<14831, 8445, 9298>>, -43),
       logctail |-> Double(TRUE, <<11579, 4263, 4385, 715>>, -97)],
      [invc |-> Double(FALSE, <<169>>, -7),
       logc |-> Double(TRUE, <<11571, 3168, 9105>>, -43),
       logctail |-> Double(TRUE, <<5377, 10471, 16113, 506>>, -96)],
      [invc |-> Double(FALSE, <<21>>, -4),
       logc |-> Double(TRUE, <<13685, 11861, 8910>>, -43),
       logctail |-> Double(FALSE, <<10895, 3296, 8134, 124>>, -94)],
      [invc |-> Double(FALSE, <<167>>, -7),
       logc |-> Double(TRUE, <<13769, 1532, 8715>>, -43),
       logctail |-> Double(TRUE, <<11571, 14858, 1575, 725>>, -96)],
      [invc |-> Double(FALSE, <<83>>, -6),
       logc |-> Double(TRUE, <<10041, 2360, 4259>>, -42),
       logctail |-> Double(TRUE, <<391, 15848, 8051, 909>>, -98)],
      [invc |-> Double(FALSE, <<165>>, -7),
       logc |-> Double(TRUE, <<2893, 2405, 4160>>, -42),
       logctail |-> Double(TRUE, <<11647, 15312, 11145, 1037>>, -100)],
      [invc |-> Double(FALSE, <<165>>, -7),
       logc |-> Double(TRUE, <<2893, 2405, 4160>>, -42),
       logctail |-> Double(TRUE, <<11647, 15312, 11145, 1037>>, -100)],
      [invc |-> Double(FALSE, <<41>>, -5),
       logc |-> Double(TRUE, <<13689, 4486, 2030>>, -41),
       logctail |-> Double(FALSE, <<15495, 11876, 12970, 1877>>, -99)],
      [invc |-> Double(FALSE, <<163>>, -7),
       logc |-> Double(TRUE, <<7907, 5561, 3960>>, -42),
       logctail |-> Double(FALSE, <<11209, 7302, 6878, 434>>, -95)],
      [invc |-> Double(FALSE, <<81>>, -6),
       logc |-> Double(TRUE, <<8879, 475, 7719>>, -43),
       logctail |-> Double(TRUE, <<16369, 5391, 12111, 92>>, -94)],
      [invc |-> Double(FALSE, <<161>>, -7),
       logc |-> Double(TRUE, <<11583, 534, 1879>>, -41),
       logctail |-> Double(FALSE, <<10267, 12073, 10523, 1134>>, -97)],
      [invc |-> Double(FALSE, <<5>>, -2),
       logc |-> Double(TRUE, <<15573, 16120, 3655>>, -42),
       logctail |-> Double(FALSE, <<8461, 10399, 9533, 375>>, -95)],
      [invc |-> Double(FALSE, <<5>>, -2),
       logc |-> Double(TRUE, <<15573, 16120, 3655>>, -42),
       logctail |-> Double(FALSE, <<8461, 10399, 9533, 375>>, -95)],
      [invc |-> Double(FALSE, <<159>>, -7),
       logc |-> Double(TRUE, <<729, 8605, 7106>>, -43),
       logctail |-> Double(FALSE, <<14223, 1582, 11011, 1619>>, -98)],
      [invc |-> Double(FALSE, <<79>>, -6),
       logc |-> Double(TRUE, <<14851, 15508, 1724>>, -41),
       logctail |-> Double(FALSE, <<2099, 16283, 13081, 841>>, -103)],
      [invc |-> Double(FALSE, <<157>>, -7),
       logc |-> Double(TRUE, <<15915, 12039, 6691>>, -43),
       logctail |-> Double(TRUE, <<8437, 14477, 8998, 689>>, -96)],
      [invc |-> Double(FALSE, <<157>>, -7),
       logc |-> Double(TRUE, <<15915, 12039, 6691>>, -43),
       logctail |-> Double(TRUE, <<8437, 14477, 8998, 689>>, -96)],
      [invc |-> Double(FALSE, <<39>>, -5),
       logc |-> Double(TRUE, <<3909, 5799, 6482>>, -43),
       logctail |-> Double(TRUE, <<5347, 4871, 7568, 1716>>, -97)],
      [invc |-> Double(FALSE, <<155>>, -7),
       logc |-> Double(TRUE, <<4621, 10265, 6271>>, -43),
       logctail |-> Double(FALSE, <<14857, 16239, 7159, 1775>>, -97)],
      [invc |-> Double(FALSE, <<77>>, -6),
       logc |-> Double(TRUE, <<4231, 12576, 3029>>, -42),
       logctail |-> Double(FALSE, <<10571, 14633, 14112, 222>>, -94)],
      [invc |-> Double(FALSE, <<77>>, -6),
       logc |-> Double(TRUE, <<4231, 12576, 3029>>, -42),
       logctail |-> Double(FALSE, <<10571, 14633, 14112, 222>>, -94)],
      [invc |-> Double(FALSE, <<153>>, -7),
       logc |-> Double(TRUE, <<12701, 1017, 5846>>, -43),
       logctail |-> Double(TRUE, <<12595, 1893, 9045, 540>>, -97)],
      [invc |-> Double(FALSE, <<19>>, -4),
       logc |-> Double(TRUE, <<2681, 3100, 5631>>, -43),
       logctail |-> Double(TRUE, <<4153, 15425, 9273, 1959>>, -98)],
      [invc |-> Double(FALSE, <<19>>, -4),
       logc |-> Double(TRUE, <<2681, 3100, 5631>>, -43),
       logctail |-> Double(TRUE, <<4153, 15425, 9273, 1959>>, -98)],
      [invc |-> Double(FALSE, <<151>>, -7),
       logc |-> Double(TRUE, <<14875, 14712, 5414>>, -43),
       logctail |-> Double(TRUE, <<7055, 29, 10425, 1079>>, -97)],
      [invc |-> Double(FALSE, <<75>>, -6),
       logc |-> Double(TRUE, <<6551, 10587, 649>>, -40),
       logctail |-> Double(FALSE, <<7695, 8501, 13061, 368>>, -96)],
      [invc |-> Double(FALSE, <<75>>, -6),
       logc |-> Double(TRUE, <<6551, 10587, 649>>, -40),
       logctail |-> Double(FALSE, <<7695, 8501, 13061, 368>>, -96)],
      [invc |-> Double(FALSE, <<149>>, -7),
       logc |-> Double(TRUE, <<489, 16136, 4977>>, -43),
       logctail |-> Double(FALSE, <<10781, 6734, 1074, 559>>, -99)],
      [invc |-> Double(FALSE, <<37>>, -5),
       logc |-> Double(TRUE, <<511, 5310, 4757>>, -43),
       logctail |-> Double(TRUE, <<14465, 3000, 6752, 164>>, -94)],
      [invc |-> Double(FALSE, <<147>>, -7),
       logc |-> Double(TRUE, <<10619, 9562, 2267>>, -42),
       logctail |-> Double(TRUE, <<4555, 12323, 1312, 976>>, -96)],
      [invc |-> Double(FALSE, <<147>>, -7),
       logc |-> Double(TRUE, <<10619, 9562, 2267>>, -42),
       logctail |-> Double(TRUE, <<4555, 12323, 1312, 976>>, -96)],
      [invc |-> Double(FALSE, <<73>>, -6),
       logc |-> Double(TRUE, <<3337, 8095, 4311>>, -43),
       logctail |-> Double(FALSE, <<5885, 2280, 9818, 422>>, -97)],
      [invc |-> Double(FALSE, <<73>>, -6),
       logc |-> Double(TRUE, <<3337, 8095, 4311>>, -43),
       logctail |-> Double(FALSE, <<5885, 2280, 9818, 422>>, -97)],
      [invc |-> Double(FALSE, <<145>>, -7),
       logc |-> Double(TRUE, <<3807, 4646, 4086>>, -43),
       logctail |-> Double(TRUE, <<6649, 14662, 10914, 686>>, -96)],
      [invc |-> Double(FALSE, <<9>>, -3),
       logc |-> Double(TRUE, <<11819, 7197, 482>>, -40),
       logctail |-> Double(FALSE, <<15, 10992, 4272, 419>>, -95)],
      [invc |-> Double(FALSE, <<9>>, -3),
       logc |-> Double(TRUE, <<11819, 7197, 482>>, -40),
       logctail |-> Double(FALSE, <<15, 10992, 4272, 419>>, -95)],
      [invc |-> Double(FALSE, <<143>>, -7),
       logc |-> Double(TRUE, <<15727, 9544, 1815>>, -42),
       logctail |-> Double(TRUE, <<7939, 12479, 8890, 929>>, -97)],
      [invc |-> Double(FALSE, <<71>>, -6),
       logc |-> Double(TRUE, <<4695, 3495, 3401>>, -43),
       logctail |-> Double(FALSE, <<13657, 13357, 12907, 169>>, -94)],
      [invc |-> Double(FALSE, <<71>>, -6),
       logc |-> Double(TRUE, <<4695, 3495, 3401>>, -43),
       logctail |-> Double(FALSE, <<13657, 13357, 12907, 169>>, -94)],
      [invc |-> Double(FALSE, <<141>>, -7),
       logc |-> Double(TRUE, <<12685, 10426, 3169>>, -43),
       logctail |-> Double(FALSE, <<10957, 9879, 14418, 155>>, -95)],
      [invc |-> Double(FALSE, <<141>>, -7),
       logc |-> Double(TRUE, <<12685, 10426, 3169>>, -43),
       logctail |-> Double(FALSE, <<10957, 9879, 14418, 155>>, -95)],
      [invc |-> Double(FALSE, <<35>>, -5),
       logc |-> Double(TRUE, <<5931, 6737, 2936>>, -43),
       logctail |-> Double(TRUE, <<14829, 4710, 14782, 722>>, -96)],
      [invc |-> Double(FALSE, <<139>>, -7),
       logc |-> Double(TRUE, <<14385, 8423, 2701>>, -43),
       logctail |-> Double(FALSE, <<7767, 1817, 9654, 1984>>, -98)],
      [invc |-> Double(FALSE, <<139>>, -7),
       logc |-> Double(TRUE, <<14385, 8423, 2701>>, -43),
       logctail |-> Double(FALSE, <<7767, 1817, 9654, 1984>>, -98)],
      [invc |-> Double(FALSE, <<69>>, -6),
       logc |-> Double(TRUE, <<12511, 15090, 2464>>, -43),
       logctail |-> Double(FALSE, <<5087, 13284, 11692, 1815>>, -97)],
      [invc |-> Double(FALSE, <<69>>, -6),
       logc |-> Double(TRUE, <<12511, 15090, 2464>>, -43),
       logctail |-> Double(FALSE, <<5087, 13284, 11692, 1815>>, -97)],
      [invc |-> Double(FALSE, <<137>>, -7),
       logc |-> Double(TRUE, <<7495, 10679, 556>>, -41),
       logctail |-> Double(FALSE, <<8969, 6718, 1511, 1311>>, -98)],
      [invc |-> Double(FALSE, <<17>>, -4),
       logc |-> Double(TRUE, <<35, 4486, 993>>, -42),
       logctail |-> Double(FALSE, <<3729, 3290, 6632, 1878>>, -97)],
      [invc |-> Double(FALSE, <<17>>, -4),
       logc |-> Double(TRUE, <<35, 4486, 993>>, -42),
       logctail |-> Double(FALSE, <<3729, 3290, 6632, 1878>>, -97)],
      [invc |-> Double(FALSE, <<135>>, -7),
       logc |-> Double(TRUE, <<8755, 5867, 872>>, -42),
       logctail |-> Double(FALSE, <<7187, 9686, 2539, 456>>, -96)],
      [invc |-> Double(FALSE, <<135>>, -7),
       logc |-> Double(TRUE, <<8755, 5867, 872>>, -42),
       logctail |-> Double(FALSE, <<7187, 9686, 2539, 456>>, -96)],
      [invc |-> Double(FALSE, <<67>>, -6),
       logc |-> Double(TRUE, <<6347, 1423, 1501>>, -43),
       logctail |-> Double(TRUE, <<4343, 10725, 8753, 927>>, -96)],
      [invc |-> Double(FALSE, <<67>>, -6),
       logc |-> Double(TRUE, <<6347, 1423, 1501>>, -43),
       logctail |-> Double(TRUE, <<4343, 10725, 8753, 927>>, -96)],
      [invc |-> Double(FALSE, <<133>>, -7),
       logc |-> Double(TRUE, <<10235, 10363, 1255>>, -43),
       logctail |-> Double(FALSE, <<16213, 10829, 5567, 672>>, -99)],
      [invc |-> Double(FALSE, <<133>>, -7),
       logc |-> Double(TRUE, <<10235, 10363, 1255>>, -43),
       logctail |-> Double(FALSE, <<16213, 10829, 5567, 672>>, -99)],
      [invc |-> Double(FALSE, <<33>>, -5),
       logc |-> Double(TRUE, <<8655, 333, 63>>, -39),
       logctail |-> Double(TRUE, <<633, 15486, 153, 408>>, -95)],
      [invc |-> Double(FALSE, <<33>>, -5),
       logc |-> Double(TRUE, <<8655, 333, 63>>, -39),
       logctail |-> Double(TRUE, <<633, 15486, 153, 408>>, -95)],
      [invc |-> Double(FALSE, <<131>>, -7),
       logc |-> Double(TRUE, <<4011, 2264, 759>>, -43),
       logctail |-> Double(TRUE, <<9785, 4074, 5449, 1571>>, -97)],
      [invc |-> Double(FALSE, <<65>>, -6),
       logc |-> Double(TRUE, <<11327, 168, 127>>, -41),
       logctail |-> Double(TRUE, <<10663, 14035, 14835, 497>>, -100)],
      [invc |-> Double(FALSE, <<65>>, -6),
       logc |-> Double(TRUE, <<11327, 168, 127>>, -41),
       logctail |-> Double(TRUE, <<10663, 14035, 14835, 497>>, -100)],
      [invc |-> Double(FALSE, <<129>>, -7),
       logc |-> Double(TRUE, <<9905, 14346, 31>>, -40),
       logctail |-> Double(TRUE, <<4153, 3546, 2300, 414>>, -96)],
      [invc |-> Double(FALSE, <<129>>, -7),
       logc |-> Double(TRUE, <<9905, 14346, 31>>, -40),
       logctail |-> Double(TRUE, <<4153, 3546, 2300, 414>>, -96)],
      [invc |-> Double(FALSE, <<1>>, 0),
       logc |-> RZero,
       logctail |-> RZero],
      [invc |-> Double(FALSE, <<1>>, 0),
       logc |-> RZero,
       logctail |-> RZero],
      [invc |-> Double(FALSE, <<127>>, -7),
       logc |-> Double(FALSE, <<13705, 85, 257>>, -43),
       logctail |-> Double(TRUE, <<9597, 3278, 3799, 134>>, -95)],
      [invc |-> Double(FALSE, <<63>>, -6),
       logc |-> Double(FALSE, <<12583, 690, 516>>, -43),
       logctail |-> Double(TRUE, <<15337, 3525, 8920, 635>>, -96)],
      [invc |-> Double(FALSE, <<125>>, -7),
       logc |-> Double(FALSE, <<10441, 9364, 388>>, -42),
       logctail |-> Double(TRUE, <<781, 12890, 744, 426>>, -95)],
      [invc |-> Double(FALSE, <<31>>, -5),
       logc |-> Double(FALSE, <<10141, 5592, 1040>>, -43),
       logctail |-> Double(FALSE, <<5971, 13255, 7173, 1092>>, -99)],
      [invc |-> Double(FALSE, <<123>>, -7),
       logc |-> Double(FALSE, <<10775, 3421, 163>>, -40),
       logctail |-> Double(TRUE, <<16293, 15070, 11494, 224>>, -94)],
      [invc |-> Double(FALSE, <<61>>, -6),
       logc |-> Double(FALSE, <<4735, 2721, 1573>>, -43),
       logctail |-> Double(TRUE, <<9853, 360, 6493, 1630>>, -98)],
      [invc |-> Double(FALSE, <<121>>, -7),
       logc |-> Double(FALSE, <<14199, 14140, 1842>>, -43),
       logctail |-> Double(TRUE, <<10247, 8032, 3876, 1690>>, -98)],
      [invc |-> Double(FALSE, <<241>>, -8),
       logc |-> Double(FALSE, <<27, 8988, 1978>>, -43),
       logctail |-> Double(TRUE, <<15227, 16164, 5092, 1924>>, -99)],
      [invc |-> Double(FALSE, <<239>>, -8),
       logc |-> Double(FALSE, <<2611, 10106, 2251>>, -43),
       logctail |-> Double(TRUE, <<7835, 6198, 9685, 1356>>, -97)],
      [invc |-> Double(FALSE, <<237>>, -8),
       logc |-> Double(FALSE, <<16015, 16052, 2526>>, -43),
       logctail |-> Double(FALSE, <<3799, 5997, 1514, 1842>>, -97)],
      [invc |-> Double(FALSE, <<235>>, -8),
       logc |-> Double(FALSE, <<11453, 11081, 2804>>, -43),
       logctail |-> Double(TRUE, <<3727, 14522, 2097, 909>>, -96)],
      [invc |-> Double(FALSE, <<117>>, -7),
       logc |-> Double(FALSE, <<11179, 3376, 1472>>, -42),
       logctail |-> Double(FALSE, <<13977, 4923, 13421, 899>>, -100)],
      [invc |-> Double(FALSE, <<29>>, -5),
       logc |-> Double(FALSE, <<13669, 13797, 1612>>, -42),
       logctail |-> Double(FALSE, <<9197, 13690, 2785, 610>>, -96)],
      [invc |-> Double(FALSE, <<115>>, -7),
       logc |-> Double(FALSE, <<11627, 6417, 3509>>, -43),
       logctail |-> Double(TRUE, <<10469, 12253, 2050, 1252>>, -98)],
      [invc |-> Double(FALSE, <<229>>, -8),
       logc |-> Double(FALSE, <<1777, 1408, 1826>>, -42),
       logctail |-> Double(FALSE, <<11475, 6506, 11548, 1425>>, -97)],
      [invc |-> Double(FALSE, <<227>>, -8),
       logc |-> Double(FALSE, <<6225, 10032, 3939>>, -43),
       logctail |-> Double(TRUE, <<12847, 5628, 8244, 59>>, -92)],
      [invc |-> Double(FALSE, <<113>>, -7),
       logc |-> Double(FALSE, <<3807, 4647, 4084>>, -43),
       logctail |-> Double(TRUE, <<2813, 16004, 3428, 1357>>, -97)],
      [invc |-> Double(FALSE, <<7>>, -3),
       logc |-> Double(FALSE, <<4415, 12752, 2187>>, -42),
       logctail |-> Double(FALSE, <<1017, 7258, 15302, 573>>, -96)],
      [invc |-> Double(FALSE, <<223>>, -8),
       logc |-> Double(FALSE, <<8767, 2783, 4522>>, -43),
       logctail |-> Double(FALSE, <<9805, 1080, 7737, 458>>, -95)],
      [invc |-> Double(FALSE, <<221>>, -8),
       logc |-> Double(FALSE, <<6413, 2824, 602>>, -40),
       logctail |-> Double(FALSE, <<13473, 11782, 5836, 1255>>, -99)],
      [invc |-> Double(FALSE, <<55>>, -6),
       logc |-> Double(FALSE, <<345, 16172, 4965>>, -43),
       logctail |-> Double(FALSE, <<12937, 3373, 14978, 1419>>, -103)],
      [invc |-> Double(FALSE, <<109>>, -7),
       logc |-> Double(FALSE, <<13115, 3936, 5265>>, -43),
       logctail |-> Double(FALSE, <<14031, 10878, 1778, 172>>, -94)],
      [invc |-> Double(FALSE, <<217>>, -8),
       logc |-> Double(FALSE, <<2587, 14713, 5415>>, -43),
       logctail |-> Double(FALSE, <<15815, 5541, 16014, 1420>>, -97)],
      [invc |-> Double(FALSE, <<215>>, -8),
       logc |-> Double(FALSE, <<10433, 5039, 5719>>, -43),
       logctail |-> Double(FALSE, <<1487, 5662, 7958, 206>>, -95)],
      [invc |-> Double(FALSE, <<107>>, -7),
       logc |-> Double(FALSE, <<14167, 1186, 5872>>, -43),
       logctail |-> Double(TRUE, <<8673, 5744, 6366, 1348>>, -97)],
      [invc |-> Double(FALSE, <<213>>, -8),
       logc |-> Double(FALSE, <<5189, 9057, 6025>>, -43),
       logctail |-> Double(TRUE, <<773, 581, 8455, 1817>>, -98)],
      [invc |-> Double(FALSE, <<211>>, -8),
       logc |-> Double(FALSE, <<11065, 15039, 395>>, -39),
       logctail |-> Double(TRUE, <<11473, 11172, 5450, 1487>>, -99)],
      [invc |-> Double(FALSE, <<105>>, -7),
       logc |-> Double(FALSE, <<7415, 10603, 405>>, -39),
       logctail |-> Double(FALSE, <<16239, 8835, 8837, 1532>>, -99)],
      [invc |-> Double(FALSE, <<13>>, -4),
       logc |-> Double(FALSE, <<9303, 15783, 3401>>, -42),
       logctail |-> Double(TRUE, <<8553, 344, 9269, 1564>>, -97)],
      [invc |-> Double(FALSE, <<207>>, -8),
       logc |-> Double(FALSE, <<13757, 13845, 6961>>, -43),
       logctail |-> Double(TRUE, <<12501, 7513, 11370, 902>>, -98)],
      [invc |-> Double(FALSE, <<103>>, -7),
       logc |-> Double(FALSE, <<479, 4327, 3560>>, -42),
       logctail |-> Double(TRUE, <<2395, 12968, 7714, 937>>, -96)],
      [invc |-> Double(FALSE, <<205>>, -8),
       logc |-> Double(FALSE, <<12033, 16113, 7279>>, -43),
       logctail |-> Double(TRUE, <<5609, 2860, 9110, 573>>, -99)],
      [invc |-> Double(FALSE, <<203>>, -8),
       logc |-> Double(FALSE, <<3401, 3948, 7601>>, -43),
       logctail |-> Double(TRUE, <<12341, 7254, 12975, 1727>>, -97)],
      [invc |-> Double(FALSE, <<101>>, -7),
       logc |-> Double(FALSE, <<15985, 959, 7763>>, -43),
       logctail |-> Double(FALSE, <<8003, 6160, 4647, 72>>, -99)],
      [invc |-> Double(FALSE, <<201>>, -8),
       logc |-> Double(FALSE, <<9437, 5815, 495>>, -39),
       logctail |-> Double(TRUE, <<3601, 5870, 4438, 1672>>, -103)],
      [invc |-> Double(FALSE, <<25>>, -5),
       logc |-> Double(FALSE, <<2875, 1819, 8089>>, -43),
       logctail |-> Double(FALSE, <<3571, 12931, 3052, 111>>, -94)],
      [invc |-> Double(FALSE, <<99>>, -7),
       logc |-> Double(FALSE, <<2475, 7216, 8418>>, -43),
       logctail |-> Double(FALSE, <<3729, 7093, 3505, 1575>>, -100)],
      [invc |-> Double(FALSE, <<197>>, -8),
       logc |-> Double(FALSE, <<15115, 1452, 2146>>, -41),
       logctail |-> Double(FALSE, <<10985, 6387, 2225, 1478>>, -97)],
      [invc |-> Double(FALSE, <<49>>, -6),
       logc |-> Double(FALSE, <<1277, 1857, 8751>>, -43),
       logctail |-> Double(TRUE, <<15367, 9125, 1081, 450>>, -95)],
      [invc |-> Double(FALSE, <<195>>, -8),
       logc |-> Double(FALSE, <<13727, 11877, 8918>>, -43),
       logctail |-> Double(FALSE, <<5761, 7828, 11487, 1766>>, -97)],
      [invc |-> Double(FALSE, <<97>>, -7),
       logc |-> Double(FALSE, <<11085, 3249, 9087>>, -43),
       logctail |-> Double(FALSE, <<15799, 1310, 11989, 1833>>, -97)],
      [invc |-> Double(FALSE, <<193>>, -8),
       logc |-> Double(FALSE, <<8663, 8886, 9256>>, -43),
       logctail |-> Double(FALSE, <<7541, 13453, 16117, 848>>, -98)],
      [invc |-> Double(FALSE, <<191>>, -8),
       logc |-> Double(FALSE, <<3529, 15391, 4798>>, -42),
       logctail |-> Double(FALSE, <<317, 2640, 13289, 425>>, -95)],
      [invc |-> Double(FALSE, <<95>>, -7),
       logc |-> Double(FALSE, <<3739, 7740, 2442>>, -41),
       logctail |-> Double(TRUE, <<10135, 10640, 1269, 199>>, -94)],
      [invc |-> Double(FALSE, <<189>>, -8),
       logc |-> Double(FALSE, <<11233, 6621, 4971>>, -42),
       logctail |-> Double(FALSE, <<12025, 6264, 7579, 139>>, -95)],
      [invc |-> Double(FALSE, <<47>>, -6),
       logc |-> Double(FALSE, <<13107, 5277, 5058>>, -42),
       logctail |-> Double(FALSE, <<12119, 13830, 11602, 387>>, -96)],
      [invc |-> Double(FALSE, <<187>>, -8),
       logc |-> Double(FALSE, <<15037, 6673, 10291>>, -43),
       logctail |-> Double(FALSE, <<8349, 12867, 878, 1593>>, -99)],
      [invc |-> Double(FALSE, <<93>>, -7),
       logc |-> Double(FALSE, <<3641, 1761, 10467>>, -43),
       logctail |-> Double(TRUE, <<5749, 9631, 15584, 1993>>, -97)],
      [invc |-> Double(FALSE, <<185>>, -8),
       logc |-> Double(FALSE, <<8563, 14375, 5321>>, -42),
       logctail |-> Double(TRUE, <<13865, 6922, 548, 482>>, -95)],
      [invc |-> Double(FALSE, <<23>>, -5),
       logc |-> Double(FALSE, <<14789, 5568, 2705>>, -41),
       logctail |-> Double(FALSE, <<1881, 1427, 9992, 1967>>, -97)],
      [invc |-> Double(FALSE, <<183>>, -8),
       logc |-> Double(FALSE, <<15501, 15828, 5499>>, -42),
       logctail |-> Double(FALSE, <<239, 14709, 7902, 2027>>, -98)],
      [invc |-> Double(FALSE, <<91>>, -7),
       logc |-> Double(FALSE, <<15051, 14267, 2794>>, -41),
       logctail |-> Double(TRUE, <<6519, 2212, 11432, 416>>, -97)]>>

\* e_exp_data.c: row i + 1 holds the double scale nearest to 2^(i/128)
\* and tail, what 2^(i/128) exceeds it by
PowExpTab ==
    <<[tail |-> RZero,
       scale |-> Double(FALSE, <<1>>, 0)],
      [tail |-> Double(FALSE, <<8119, 13585, 6776, 871>>, -105),
       scale |-> Double(FALSE, <<13109, 10220, 9178, 1029>>, -52)],
      [tail |-> Double(TRUE, <<7261, 13155, 313, 1112>>, -108),
       scale |-> Double(FALSE, <<97, 14814, 2467, 1035>>, -52)],
      [tail |-> Double(TRUE, <<9937, 541, 10145, 1047>>, -106),
       scale |-> Double(FALSE, <<16261, 8633, 12638, 1040>>, -52)],
      [tail |-> Double(FALSE, <<13843, 5535, 9507, 1844>>, -107),
       scale |-> Double(FALSE, <<8541, 4885, 9923, 261>>, -50)],
      [tail |-> Double(TRUE, <<1917, 2035, 13313, 889>>, -106),
       scale |-> Double(FALSE, <<15215, 5051, 857, 526>>, -51)],
      [tail |-> Double(FALSE, <<2145, 1947, 13542, 1085>>, -109),
       scale |-> Double(FALSE, <<13177, 3130, 3722, 132>>, -49)],
      [tail |-> Double(FALSE, <<5017, 11471, 15941, 1064>>, -106),
       scale |-> Double(FALSE, <<13187, 11035, 9196, 1063>>, -52)],
      [tail |-> Double(FALSE, <<15213, 13837, 10853, 1510>>, -106),
       scale |-> Double(FALSE, <<2319, 13286, 5510, 1069>>, -52)],
      [tail |-> Double(FALSE, <<15359, 4861, 5226, 491>>, -105),
       scale |-> Double(FALSE, <<2039, 11721, 2338, 1075>>, -52)],
      [tail |-> Double(FALSE, <<7377, 190, 9175, 1967>>, -112),
       scale |-> Double(FALSE, <<10449, 9639, 8033, 540>>, -51)],
      [tail |-> Double(TRUE, <<11787, 9793, 13128, 1664>>, -109),
       scale |-> Double(FALSE, <<4891, 16379, 13930, 1086>>, -52)],
      [tail |-> Double(TRUE, <<7815, 5215, 12945, 682>>, -105),
       scale |-> Double(FALSE, <<6993, 73, 12317, 1092>>, -52)],
      [tail |-> Double(TRUE, <<10837, 12603, 3832, 1056>>, -110),
       scale |-> Double(FALSE, <<3187, 108, 10999, 274>>, -50)],
      [tail |-> Double(TRUE, <<14859, 13227, 2333, 569>>, -105),
       scale |-> Double(FALSE, <<2415, 5589, 8525, 34>>, -47)],
      [tail |-> Double(FALSE, <<5551, 9585, 15934, 1076>>, -107),
       scale |-> Double(FALSE, <<3665, 8854, 10636, 1110>>, -52)],
      [tail |-> Double(TRUE, <<12905, 13650, 13867, 128>>, -104),
       scale |-> Double(FALSE, <<4475, 12789, 11139, 1116>>, -52)],
      [tail |-> Double(TRUE, <<12861, 6008, 16133, 1991>>, -107),
       scale |-> Double(FALSE, <<1781, 12569, 6089, 561>>, -51)],
      [tail |-> Double(FALSE, <<5055, 15437, 6339, 1762>>, -107),
       scale |-> Double(FALSE, <<2933, 11711, 13758, 1128>>, -52)],
      [tail |-> Double(TRUE, <<13715, 11299, 3299, 731>>, -105),
       scale |-> Double(FALSE, <<5941, 1028, 12162, 283>>, -50)],
      [tail |-> Double(FALSE, <<4475, 10183, 13947, 53>>, -101),
       scale |-> Double(FALSE, <<7381, 8913, 9273, 570>>, -51)],
      [tail |-> Double(TRUE, <<14493, 11800, 14380, 2041>>, -107),
       scale |-> Double(FALSE, <<6429, 3059, 5378, 1147>>, -52)],
      [tail |-> Double(FALSE, <<909, 4763, 13332, 1691>>, -107),
       scale |-> Double(FALSE, <<1643, 4293, 12764, 576>>, -51)],
      [tail |-> Double(FALSE, <<1149, 912, 8283, 1054>>, -107),
       scale |-> Double(FALSE, <<11851, 8955, 14924, 579>>, -51)],
      [tail |-> Double(FALSE, <<10789, 9128, 15351, 360>>, -104),
       scale |-> Double(FALSE, <<11335, 14138, 12532, 145>>, -49)],
      [tail |-> Double(FALSE, <<2173, 2513, 8591, 1495>>, -107),
       scale |-> Double(FALSE, <<9791, 16074, 7396, 1172>>, -52)],
      [tail |-> Double(FALSE, <<13305, 12351, 14684, 520>>, -106),
       scale |-> Double(FALSE, <<15581, 6025, 13398, 1178>>, -52)],
      [tail |-> Double(TRUE, <<1071, 16098, 985, 727>>, -105),
       scale |-> Double(FALSE, <<9089, 2005, 3582, 1185>>, -52)],
      [tail |-> Double(FALSE, <<11057, 13350, 15894, 1213>>, -107),
       scale |-> Double(FALSE, <<7905, 5247, 10719, 1191>>, -52)],
      [tail |-> Double(TRUE, <<8189, 13535, 3288, 932>>, -111),
       scale |-> Double(FALSE, <<11673, 13366, 14463, 74>>, -48)],
      [tail |-> Double(FALSE, <<685, 12812, 7689, 435>>, -105),
       scale |-> Double(FALSE, <<779, 7056, 10330, 1204>>, -52)],
      [tail |-> Double(FALSE, <<2959, 10043, 2344, 1925>>, -109),
       scale |-> Double(FALSE, <<6059, 4732, 9597, 605>>, -51)],
      [tail |-> Double(FALSE, <<5595, 7009, 11178, 617>>, -106),
       scale |-> Double(FALSE, <<14101, 10438, 12256, 1217>>, -52)],
      [tail |-> Double(FALSE, <<7443, 8876, 2055, 356>>, -105),
       scale |-> Double(FALSE, <<6193, 12595, 5903, 1224>>, -52)],
      [tail |-> Double(FALSE, <<15397, 15271, 10698, 1019>>, -106),
       scale |-> Double(FALSE, <<5887, 2448, 139, 1231>>, -52)],
      [tail |-> Double(TRUE, <<5825, 15246, 3584, 362>>, -105),
       scale |-> Double(FALSE, <<8177, 15946, 11349, 1237>>, -52)],
      [tail |-> Double(TRUE, <<10765, 9765, 5595, 146>>, -103),
       scale |-> Double(FALSE, <<10699, 7402, 6771, 1244>>, -52)],
      [tail |-> Double(TRUE, <<5831, 13986, 16320, 800>>, -105),
       scale |-> Double(FALSE, <<11315, 6667, 9587, 625>>, -51)],
      [tail |-> Double(TRUE, <<7017, 15656, 3905, 570>>, -107),
       scale |-> Double(FALSE, <<8183, 5014, 15795, 1257>>, -52)],
      [tail |-> Double(TRUE, <<6933, 3896, 4507, 1606>>, -106),
       scale |-> Double(FALSE, <<10469, 3150, 13020, 1264>>, -52)],
      [tail |-> Double(FALSE, <<3181, 7337, 13450, 1383>>, -107),
       scale |-> Double(FALSE, <<6673, 6180, 13618, 635>>, -51)],
      [tail |-> Double(TRUE, <<13509, 13392, 4867, 610>>, -105),
       scale |-> Double(FALSE, <<8199, 1196, 10516, 319>>, -50)],
      [tail |-> Double(TRUE, <<2395, 8286, 14580, 1577>>, -110),
       scale |-> Double(FALSE, <<5909, 1006, 12369, 642>>, -51)],
      [tail |-> Double(TRUE, <<6683, 7462, 2486, 1803>>, -108),
       scale |-> Double(FALSE, <<10391, 9538, 8029, 1292>>, -52)],
      [tail |-> Double(FALSE, <<11281, 778, 16086, 1240>>, -111),
       scale |-> Double(FALSE, <<2349, 390, 8326, 1299>>, -52)],
      [tail |-> Double(FALSE, <<9455, 11289, 8339, 1433>>, -106),
       scale |-> Double(FALSE, <<87, 13428, 9246, 1306>>, -52)],
      [tail |-> Double(FALSE, <<889, 10884, 3613, 1971>>, -109),
       scale |-> Double(FALSE, <<5069, 11632, 1698, 82>>, -48)],
      [tail |-> Double(FALSE, <<12579, 4035, 16270, 79>>, -102),
       scale |-> Double(FALSE, <<10735, 8623, 6487, 660>>, -51)],
      [tail |-> Double(FALSE, <<11003, 11998, 4302, 90>>, -104),
       scale |-> Double(FALSE, <<10791, 5336, 15789, 1327>>, -52)],
      [tail |-> Double(FALSE, <<8311, 11603, 7134, 1223>>, -106),
       scale |-> Double(FALSE, <<7437, 10231, 2857, 1335>>, -52)],
      [tail |-> Double(TRUE, <<4551, 227, 8608, 1010>>, -106),
       scale |-> Double(FALSE, <<11431, 6772, 6951, 1342>>, -52)],
      [tail |-> Double(TRUE, <<9033, 12878, 11469, 1527>>, -107),
       scale |-> Double(FALSE, <<13089, 1438, 14037, 674>>, -51)],
      [tail |-> Double(TRUE, <<14431, 13372, 11371, 1591>>, -108),
       scale |-> Double(FALSE, <<10177, 11578, 8538, 678>>, -51)],
      [tail |-> Double(TRUE, <<11899, 6390, 4663, 706>>, -106),
       scale |-> Double(FALSE, <<4623, 10614, 6732, 1364>>, -52)],
      [tail |-> Double(FALSE, <<11207, 12795, 10280, 614>>, -105),
       scale |-> Double(FALSE, <<5101, 11626, 14905, 685>>, -51)],
      [tail |-> Double(FALSE, <<6917, 15914, 2930, 1766>>, -108),
       scale |-> Double(FALSE, <<2045, 4703, 4397, 1379>>, -52)],
      [tail |-> Double(FALSE, <<5129, 2161, 15902, 1048>>, -106),
       scale |-> Double(FALSE, <<5161, 13601, 12413, 1386>>, -52)],
      [tail |-> Double(FALSE, <<9077, 8243, 15402, 664>>, -111),
       scale |-> Double(FALSE, <<1719, 10597, 4712, 1394>>, -52)],
      [tail |-> Double(FALSE, <<53, 11667, 11874, 1292>>, -106),
       scale |-> Double(FALSE, <<9257, 2774, 3806, 175>>, -49)],
      [tail |-> Double(TRUE, <<13983, 1637, 1190, 1849>>, -107),
       scale |-> Double(FALSE, <<7177, 9691, 7707, 1409>>, -52)],
      [tail |-> Double(TRUE, <<10677, 7671, 10122, 225>>, -104),
       scale |-> Double(FALSE, <<5509, 233, 2027, 1417>>, -52)],
      [tail |-> Double(TRUE, <<13527, 4695, 7108, 650>>, -106),
       scale |-> Double(FALSE, <<9753, 1689, 8611, 44>>, -47)],
      [tail |-> Double(TRUE, <<2827, 15403, 7610, 158>>, -103),
       scale |-> Double(FALSE, <<8741, 2388, 9096, 1432>>, -52)],
      [tail |-> Double(FALSE, <<1625, 126, 682, 369>>, -108),
       scale |-> Double(FALSE, <<10611, 4402, 5469, 1440>>, -52)],
      [tail |-> Double(TRUE, <<1093, 8111, 10207, 157>>, -103),
       scale |-> Double(FALSE, <<15309, 6652, 2534, 1448>>, -52)],
      [tail |-> Double(TRUE, <<7361, 3689, 5484, 834>>, -108),
       scale |-> Double(FALSE, <<6847, 5167, 295, 1456>>, -52)],
      [tail |-> Double(TRUE, <<5367, 12507, 16253, 620>>, -108),
       scale |-> Double(FALSE, <<6703, 12692, 15139, 1463>>, -52)],
      [tail |-> Double(TRUE, <<2129, 4994, 981, 1079>>, -107),
       scale |-> Double(FALSE, <<9505, 14673, 15863, 367>>, -50)],
      [tail |-> Double(TRUE, <<16079, 14696, 13895, 1543>>, -108),
       scale |-> Double(FALSE, <<6109, 10476, 15831, 369>>, -50)],
      [tail |-> Double(TRUE, <<14299, 12322, 11850, 91>>, -103),
       scale |-> Double(FALSE, <<8285, 2213, 15977, 371>>, -50)],
      [tail |-> Double(TRUE, <<13125, 15531, 2448, 707>>, -106),
       scale |-> Double(FALSE, <<10185, 6409, 16053, 1495>>, -52)],
      [tail |-> Double(FALSE, <<5331, 14375, 3253, 1063>>, -106),
       scale |-> Double(FALSE, <<7487, 16249, 1684, 1504>>, -52)],
      [tail |-> Double(TRUE, <<9501, 9526, 11723, 1740>>, -108),
       scale |-> Double(FALSE, <<391, 4012, 4423, 1512>>, -52)],
      [tail |-> Double(FALSE, <<107, 4511, 4053, 1339>>, -106),
       scale |-> Double(FALSE, <<8345, 609, 3944, 760>>, -51)],
      [tail |-> Double(FALSE, <<11349, 12121, 15898, 1402>>, -109),
       scale |-> Double(FALSE, <<10033, 11678, 6041, 764>>, -51)],
      [tail |-> Double(TRUE, <<10145, 8039, 3625, 788>>, -106),
       scale |-> Double(FALSE, <<3337, 10364, 8506, 768>>, -51)],
      [tail |-> Double(TRUE, <<3533, 12603, 9947, 310>>, -104),
       scale |-> Double(FALSE, <<3603, 9523, 6297, 1545>>, -52)],
      [tail |-> Double(TRUE, <<16271, 13363, 13345, 523>>, -106),
       scale |-> Double(FALSE, <<1965, 6287, 12708, 1553>>, -52)],
      [tail |-> Double(TRUE, <<11191, 12516, 8838, 666>>, -105),
       scale |-> Double(FALSE, <<4845, 11538, 3481, 1562>>, -52)],
      [tail |-> Double(FALSE, <<1861, 3766, 1387, 2>>, -97),
       scale |-> Double(FALSE, <<9881, 9769, 11389, 1570>>, -52)],
      [tail |-> Double(FALSE, <<15021, 496, 7359, 475>>, -105),
       scale |-> Double(FALSE, <<8411, 2218, 3668, 1579>>, -52)],
      [tail |-> Double(TRUE, <<10239, 13079, 9737, 1389>>, -109),
       scale |-> Double(FALSE, <<4387, 5813, 15560, 396>>, -50)],
      [tail |-> Double(FALSE, <<6097, 6643, 6669, 447>>, -106),
       scale |-> Double(FALSE, <<15259, 12842, 3444, 798>>, -51)],
      [tail |-> Double(TRUE, <<15747, 7288, 4602, 1218>>, -106),
       scale |-> Double(FALSE, <<16355, 5923, 8920, 802>>, -51)],
      [tail |-> Double(TRUE, <<7721, 11696, 7048, 1898>>, -110),
       scale |-> Double(FALSE, <<1509, 823, 13179, 1613>>, -52)],
      [tail |-> Double(TRUE, <<14681, 12866, 16279, 1800>>, -109),
       scale |-> Double(FALSE, <<4623, 12065, 9292, 1622>>, -52)],
      [tail |-> Double(TRUE, <<15573, 1513, 6681, 584>>, -105),
       scale |-> Double(FALSE, <<9445, 10231, 15746, 101>>, -48)],
      [tail |-> Double(TRUE, <<3659, 7578, 9933, 1394>>, -107),
       scale |-> Double(FALSE, <<989, 8596, 1931, 820>>, -51)],
      [tail |-> Double(FALSE, <<3623, 11847, 16322, 1131>>, -108),
       scale |-> Double(FALSE, <<16137, 8360, 1169, 103>>, -48)],
      [tail |-> Double(FALSE, <<13243, 1065, 9054, 1908>>, -109),
       scale |-> Double(FALSE, <<8995, 10124, 1585, 1658>>, -52)],
      [tail |-> Double(TRUE, <<8803, 2440, 4162, 1521>>, -107),
       scale |-> Double(FALSE, <<9573, 11639, 1639, 1667>>, -52)],
      [tail |-> Double(FALSE, <<12757, 3976, 2158, 1735>>, -107),
       scale |-> Double(FALSE, <<11571, 12584, 2494, 1676>>, -52)],
      [tail |-> Double(TRUE, <<15125, 3826, 15645, 1134>>, -106),
       scale |-> Double(FALSE, <<9565, 2296, 4155, 1685>>, -52)],
      [tail |-> Double(FALSE, <<6377, 14812, 8588, 537>>, -105),
       scale |-> Double(FALSE, <<5739, 2456, 13116, 211>>, -49)],
      [tail |-> Double(FALSE, <<6835, 14797, 6214, 1306>>, -107),
       scale |-> Double(FALSE, <<15807, 5607, 9909, 1703>>, -52)],
      [tail |-> Double(TRUE, <<10093, 6030, 16182, 301>>, -105),
       scale |-> Double(FALSE, <<14781, 16295, 7005, 856>>, -51)],
      [tail |-> Double(FALSE, <<13191, 2860, 10105, 1798>>, -107),
       scale |-> Double(FALSE, <<5037, 9579, 2553, 1722>>, -52)],
      [tail |-> Double(TRUE, <<11517, 5539, 7290, 527>>, -105),
       scale |-> Double(FALSE, <<6963, 4891, 12345, 865>>, -51)],
      [tail |-> Double(TRUE, <<5981, 11705, 7882, 696>>, -109),
       scale |-> Double(FALSE, <<5627, 8508, 14891, 1740>>, -52)],
      [tail |-> Double(TRUE, <<7129, 9178, 10499, 16>>, -100),
       scale |-> Double(FALSE, <<11421, 7114, 2964, 875>>, -51)],
      [tail |-> Double(TRUE, <<9421, 14509, 7120, 397>>, -107),
       scale |-> Double(FALSE, <<7751, 3053, 14191, 1759>>, -52)],
      [tail |-> Double(TRUE, <<2613, 11618, 11814, 1147>>, -106),
       scale |-> Double(FALSE, <<805, 8514, 11649, 884>>, -51)],
      [tail |-> Double(FALSE, <<7629, 10623, 15728, 1343>>, -108),
       scale |-> Double(FALSE, <<8425, 8343, 8436, 889>>, -51)],
      [tail |-> Double(TRUE, <<9771, 14994, 14319, 283>>, -104),
       scale |-> Double(FALSE, <<7689, 12124, 11301, 1788>>, -52)],
      [tail |-> Double(FALSE, <<3251, 700, 10979, 1243>>, -108),
       scale |-> Double(FALSE, <<5287, 7557, 9839, 449>>, -50)],
      [tail |-> Double(FALSE, <<16229, 7327, 3273, 494>>, -105),
       scale |-> Double(FALSE, <<10301, 16383, 1370, 904>>, -51)],
      [tail |-> Double(FALSE, <<5739, 4361, 575, 334>>, -105),
       scale |-> Double(FALSE, <<4427, 14687, 16146, 1817>>, -52)],
      [tail |-> Double(FALSE, <<6759, 8504, 6899, 1267>>, -109),
       scale |-> Double(FALSE, <<10165, 4123, 14041, 1827>>, -52)],
      [tail |-> Double(FALSE, <<813, 13897, 5720, 187>>, -106),
       scale |-> Double(FALSE, <<4201, 13246, 12813, 1837>>, -52)],
      [tail |-> Double(TRUE, <<6889, 1945, 4292, 529>>, -106),
       scale |-> Double(FALSE, <<8701, 10939, 14426, 923>>, -51)],
      [tail |-> Double(TRUE, <<14959, 16383, 5587, 2027>>, -107),
       scale |-> Double(FALSE, <<8799, 2567, 7349, 464>>, -50)],
      [tail |-> Double(TRUE, <<10569, 8662, 6883, 1027>>, -106),
       scale |-> Double(FALSE, <<1273, 4123, 15416, 933>>, -51)],
      [tail |-> Double(FALSE, <<1959, 6388, 14426, 1320>>, -108),
       scale |-> Double(FALSE, <<9351, 13294, 397, 1878>>, -52)],
      [tail |-> Double(TRUE, <<8719, 256, 6626, 1188>>, -107),
       scale |-> Double(FALSE, <<12403, 2916, 454, 236>>, -49)],
      [tail |-> Double(FALSE, <<9387, 5569, 10563, 485>>, -105),
       scale |-> Double(FALSE, <<12933, 3948, 7776, 1898>>, -52)],
      [tail |-> Double(FALSE, <<11083, 12293, 9626, 1294>>, -107),
       scale |-> Double(FALSE, <<3491, 15968, 10640, 59>>, -47)],
      [tail |-> Double(TRUE, <<15903, 7888, 4624, 1205>>, -107),
       scale |-> Double(FALSE, <<7007, 3566, 2419, 1919>>, -52)],
      [tail |-> Double(TRUE, <<3529, 11548, 11155, 1610>>, -107),
       scale |-> Double(FALSE, <<8489, 5078, 9313, 1929>>, -52)],
      [tail |-> Double(FALSE, <<2259, 234, 8262, 1325>>, -108),
       scale |-> Double(FALSE, <<8187, 3862, 375, 970>>, -51)],
      [tail |-> Double(FALSE, <<12913, 1653, 7877, 1265>>, -107),
       scale |-> Double(FALSE, <<3203, 12061, 9503, 1950>>, -52)],
      [tail |-> Double(TRUE, <<14623, 9204, 14098, 127>>, -103),
       scale |-> Double(FALSE, <<2157, 1353, 9597, 980>>, -51)],
      [tail |-> Double(TRUE, <<13437, 2189, 10638, 1899>>, -107),
       scale |-> Double(FALSE, <<10225, 13881, 13442, 1971>>, -52)],
      [tail |-> Double(FALSE, <<1025, 8405, 1912, 246>>, -104),
       scale |-> Double(FALSE, <<6695, 14725, 8638, 1982>>, -52)],
      [tail |-> Double(FALSE, <<13721, 1875, 7334, 645>>, -106),
       scale |-> Double(FALSE, <<14999, 7598, 4787, 1993>>, -52)],
      [tail |-> Double(FALSE, <<759, 9123, 9545, 844>>, -106),
       scale |-> Double(FALSE, <<14613, 9654, 5149, 31>>, -46)],
      [tail |-> Double(TRUE, <<9197, 4335, 15278, 1933>>, -107),
       scale |-> Double(FALSE, <<12165, 11676, 12278, 503>>, -50)],
      [tail |-> Double(FALSE, <<3485, 13895, 5044, 1506>>, -108),
       scale |-> Double(FALSE, <<4635, 207, 3971, 253>>, -49)],
      [tail |-> Double(FALSE, <<3209, 1411, 7188, 1217>>, -110),
       scale |-> Double(FALSE, <<12785, 11837, 15394, 2036>>, -52)]>>

\* e_pow.c log_inline: x = z * 2^k with z in [0x1.69555p-1, 0x1.69555p0),
\* and the subinterval i of z; 431445 is 0x69555, the top 20 bits of the
\* fraction of the interval's lower end
pow_log_split(x) ==
    The({ [k |-> RExponent(x) + (IF m < 431445 THEN 0 ELSE 1),
           i |-> ((m - 431445) % 1048576) \div 8192]
          : m \in {RFraction20(x)} })

\* e_pow.c log_inline, pow and exp_inline up to the look-up of the second
\* table.  log x = k ln 2 + log c + log(1 + r) for r = z/c - 1 comes as
\* lh + ll: t2 = t1 + r, hi = t2 + A0 r^2, lo1..lo4 are the low parts of
\* these sums and p is the polynomial of the higher powers of r.
\* y log x comes as ehi + elo; kd is the integer nearest to
\* ehi * 128 / ln 2 and r is ehi + elo - kd ln 2 / 128
PowStatements ==
    << <<"r", "z", "invc", "mone">>,
       <<"t1", "kd", "ln2hi", "logc">>,
       <<"lo1", "kd", "ln2lo", "logctail">>,
       <<"ar", "A0", "r", "zero">>,
       <<"p21", "r", "A2", "A1">>,
       <<"p43", "r", "A4", "A3">>,
       <<"t2", "r", "one", "t1">>,
       <<"ar2", "r", "ar", "zero">>,
       <<"lo2", "t2", "mone", "t1">>,
       <<"ar3", "r", "ar2", "zero">>,
       <<"lo3", "ar2", "mone", "zero">>,
       <<"lo3", "ar", "r", "lo3">>,
       <<"lo2", "lo2", "one", "r">>,
       <<"p65", "r", "A6", "A5">>,
       <<"hi", "t2", "one", "ar2">>,
       <<"lo4", "hi", "mone", "t2">>,
       <<"p", "p65", "ar2", "p43">>,
       <<"lo4", "lo4", "one", "ar2">>,
       <<"p", "ar2", "p", "p21">>,
       <<"lo", "lo1", "one", "lo2">>,
       <<"lo", "lo", "one", "lo3">>,
       <<"lo", "lo", "one", "lo4">>,
       <<"lo", "ar3", "p", "lo">>,
       <<"lh", "hi", "one", "lo">>,
       <<"ll", "lh", "mone", "hi">>,
       <<"ll", "ll", "one", "lo">>,
       <<"ehi", "y", "lh", "zero">>,
       <<"elo", "ehi", "mone", "zero">>,
       <<"elo", "lh", "y", "elo">>,
       <<"elo", "y", "ll", "elo">>,
       <<"kd", "ehi", "invln2N", "shift">>,
       <<"kd", "shift", "mone", "kd">>,
       <<"r", "kd", "negln2hiN", "ehi">>,
       <<"r", "kd", "negln2loN", "r">>,
       <<"r", "elo", "one", "r">>,
       <<"r2", "r", "r", "zero">>,
       <<"p32", "r", "C3", "C2">>,
       <<"p54", "r", "C5", "C4">>,
       <<"r4", "r2", "r2", "zero">> >>

\* e_pow.c exp_inline from the look-up on: 2^(kd/128) is (scale + tail) *
\* 2^(kd \div 128) for the row kd % 128 of the table, and exp(r) is
\* 1 + tmp for tmp = tail + r + r^2 (C2 + r C3) + r^4 (C4 + r C5); the
\* power is scale + scale * tmp
PowExpStatements ==
    << <<"tmp", "r", "one", "tail">>,
       <<"tmp", "p32", "r2", "tmp">>,
       <<"tmp", "p54", "r4", "tmp">>,
       <<"pow", "tmp", "scale", "scale">> >>

\* e_pow.c exp_inline: the power, from the variables V at the look-up
pow_exp(V0) ==
    The({ The({ The({ Fmas(W, PowExpStatements).pow
                      : W \in {[tail |-> T.tail,
                                scale |-> [T.scale EXCEPT
                                              !.exp = @ + (k \div 128)]]
                               @@ V} })
                : T \in {PowExpTab[(k % 128) + 1]} })
          : V \in {V0}, k \in {RToInt(V0.kd)} })

\* e_pow.c pow for floats x > 0 and y: 1.0 + ehi for |ehi| < 2^-54
pow_of_positive(x, y, s0) ==
    The({ The({ IF V.ehi.num = <<>> \/ RExponent(V.ehi) < -54
                THEN RFma(V.ehi, V.one, V.one)
                ELSE pow_exp(V)
                : V \in {Fmas(W, PowStatements)} })
          : W \in {[z |-> [x EXCEPT !.exp = @ - s0.k], kd |-> R(s0.k),
                    y |-> y] @@ PowLogTab[s0.i + 1] @@ PowData} })

\* a complex number: what x ** y is for x < 0 and a y that is not an integer
ComplexVal == [kind |-> "complex"]

\* x ** y (floatobject.c float_pow, e_pow.c pow) for floats x and y > 0:
\* 0.0 for x = 0, exp(y log x) for x > 0, and for x < 0 a complex number
\* when y is not an integer, (-x) ** y when y is an even integer and
\* -((-x) ** y) when it is an odd one.  Left out are the subnormal x and
\* the powers beyond e^512 and e^-512
float_pow(x0, y) ==
    The({ IF x.num = <<>> THEN RZero
          ELSE IF x0.neg /\ y.exp < 0 THEN ComplexVal
          ELSE [pow_of_positive(x, y, pow_log_split(x))
                   EXCEPT !.neg = x0.neg /\ y.exp = 0]
          : x \in {[x0 EXCEPT !.neg = FALSE]} })

\* x**(1/3) and x**(2/3): the exponents are the floats 1/3 and 2/3
RCbrt(x) == float_pow(x, RDiv(R(1), R(3)))
RCbrt2(x) == float_pow(x, RDiv(R(2), R(3)))

\* round(x, n) for k = 10^n: the float of the multiple of 1/k nearest to
\* the float x, the even multiple when x lies halfway between two; an
\* integer x is its own rounding
RRound(x, k) ==
    The({ IF a.exp >= 0 THEN a
          ELSE RQuotient(a.neg,
                         NDivHalfEven(NMul(a.num, NFromInt[k]),
                                      NShl(<<1>>, -a.exp)),
                         NFromInt[k], 0)
          : a \in {x} })

\* Python's min(x, y) and max(x, y): the first argument on a tie
RMin(x, y) == The({ IF RLt(b, a) THEN b ELSE a : a \in {x}, b \in {y} })
RMax(x, y) == The({ IF RLt(a, b) THEN b ELSE a : a \in {x}, b \in {y} })

(***************************************************************************)
(* Python values returned by the engine.                                   *)
(***************************************************************************)
NoneVal == [kind |-> "None"]
ValueErrorVal == [kind |-> "ValueError"]
ZeroDivisionErrorVal == [kind |-> "ZeroDivisionError"]
TypeErrorVal == [kind |-> "TypeError"]
\* the float nan: what np.sqrt returns for a negative number
NaNVal == [kind |-> "nan"]
Val(x) == [kind |-> "float", v |-> x]

IsFloat(r) == r.kind = "float"
\* the NoSolution outcome of a solver: None, or a raised ValueError
NoSolution(r) == r.kind \in {"None", "ValueError"}

(***************************************************************************)
(* Required steel area.  Simplified formulation (gptils.py, gptils_2.py,   *)
(* rcDesigner.py): K*As^2 - B*As + C = 0.  Strength-reduction-factored     *)
(* formulation (utils.py): A*As^2 + B*As + C = 0.                          *)
(***************************************************************************)

\* gptils.py 14-26, gptils_2.py 39-43: the coefficients and the discriminant
simplified_quadratic(Mu, b, d, fck, fy, phi) ==
    The({ [K |-> K, B |-> B, C |-> C,
           discriminant |-> RSub(float_pow(B, R(2)),
                                 RMul(RMul(R(4), K), C))]
          : K \in {RDiv(float_pow(fy, R(2)),
                        RMul(RMul(RMul(R(2), RQ(85, 100)), fck), b))},
            B \in {RMul(fy, d)},
            C \in {RDiv(RMul(Mu, R(1000000)), phi)} })

\* gptils.py 31-32, gptils_2.py 45-46: As1 and As2 for discriminant >= 0
simplified_roots(q) ==
    The({ [As1 |-> RDiv(RAdd(q.B, root), RMul(R(2), q.K)),
           As2 |-> RDiv(RSub(q.B, root), RMul(R(2), q.K))]
          : root \in {RSqrt(q.discriminant)} })

\* gptils.py 34-39: As_req = min(As1, As2), refused when it is <= 0
gptils_smaller_root(r) ==
    The({ IF RLe(As_req, R(0)) THEN ValueErrorVal ELSE Val(As_req)
          : As_req \in {RMin(r.As1, r.As2)} })

\* a faulty gptils.required_rebar_area: no check of the discriminant, the
\* vertex B / (2K) returned when there is no real root
gptils_required_rebar_area_unchecked(Mu, b, d, fck, fy, phi) ==
    The({ IF RLt(q.discriminant, R(0))
          THEN Val(RDiv(q.B, RMul(R(2), q.K)))
          ELSE gptils_smaller_root(simplified_roots(q))
          : q \in {simplified_quadratic(Mu, b, d, fck, fy, phi)} })

gptils_required_rebar_area(Mu, b, d, fck, fy, phi) ==
    The({ IF RLt(q.discriminant, R(0)) THEN ValueErrorVal
          ELSE gptils_smaller_root(simplified_roots(q))
          : q \in {simplified_quadratic(Mu, b, d, fck, fy, phi)} })

\* gptils_2.py 47-48: As_req = min(As1, As2), returned when it is > 0
gptils_2_smaller_root(r) ==
    The({ IF RLt(R(0), As_req) THEN Val(As_req) ELSE NoneVal
          : As_req \in {RMin(r.As1, r.As2)} })

gptils_2_required_rebar_area(Mu, b, d, fck, fy, phi) ==
    The({ IF RLt(q.discriminant, R(0)) THEN NoneVal
          ELSE gptils_2_smaller_root(simplified_roots(q))
          : q \in {simplified_quadratic(Mu, b, d, fck, fy, phi)} })

\* utils.py 19-34: the coefficients and the discriminant (alpha = 0.8,
\* beta = 0.4)
utils_quadratic(Mu, b, d, fck, fy, phi_c, phi_s) ==
    The({ [A |-> A, B |-> B, C |-> C,
           discriminant |-> RSub(float_pow(B, R(2)),
                                 RMul(RMul(R(4), A), C))]
          : A \in {RDiv(RMul(RMul(RQ(400, 1000), float_pow(phi_s, R(2))),
                             float_pow(fy, R(2))),
                        RMul(RMul(RMul(RMul(RQ(800, 1000), phi_c),
                                       RQ(85, 100)), fck), b))},
            B \in {RNeg(RMul(RMul(phi_s, fy), d))},
            C \in {RMul(Mu, R(1000000))} })

\* utils.py 39-40: As1 and As2 for discriminant > 0
utils_roots(q) ==
    The({ [As1 |-> RDiv(RAdd(RNeg(q.B), root), RMul(R(2), q.A)),
           As2 |-> RDiv(RSub(RNeg(q.B), root), RMul(R(2), q.A))]
          : root \in {RSqrt(q.discriminant)} })

\* utils.py 43: max(As1, As2)
utils_larger_root(r) == Val(RMax(r.As1, r.As2))

utils_solve_rebar_area_for_flexure(Mu, b, d, fck, fy, phi_c, phi_s) ==
    The({ IF RLe(q.discriminant, R(0)) THEN NoneVal
          ELSE utils_larger_root(utils_roots(q))
          : q \in {utils_quadratic(Mu, b, d, fck, fy, phi_c, phi_s)} })

\* rcDesigner.py 33-35: x1 and x2
solve_quadratic_roots(a_coef, b_coef, discriminant) ==
    The({ <<RDiv(RAdd(RNeg(b_coef), root), RMul(R(2), a_coef)),
            RDiv(RSub(RNeg(b_coef), root), RMul(R(2), a_coef))>>
          : root \in {RSqrt(discriminant)} })

\* rcDesigner.py 37-41: the least of the positive roots, None without one
solve_quadratic_positive(roots) ==
    The({ IF sol = <<>> THEN NoneVal
          ELSE IF Len(sol) = 1 THEN Val(sol[1])
          ELSE Val(RMin(sol[1], sol[2]))
          : sol \in {SelectSeq(roots, LAMBDA x : RLt(R(0), x))} })

\* rcDesigner.py 28-41 (and rcDesigner_detailStyle.py 28-36)
solve_quadratic(a_coef, b_coef, c_coef) ==
    The({ IF RLt(discriminant, R(0)) THEN NoneVal
          ELSE solve_quadratic_positive(
                   solve_quadratic_roots(a, b, discriminant))
          : a \in {a_coef}, b \in {b_coef},
            discriminant \in {RSub(float_pow(b_coef, R(2)),
                                   RMul(RMul(R(4), a_coef), c_coef))} })

\* rcDesigner.py 54-57: the coefficients handed to solve_quadratic
required_As_coefs(Mu, d, b, fck, fy, phi) ==
    [a_coef |-> RDiv(float_pow(fy, R(2)),
                     RMul(RMul(RMul(R(2), RQ(85, 100)), fck), b)),
     b_coef |-> RNeg(RMul(fy, d)),
     c_coef |-> RDiv(RMul(Mu, R(1000000)), phi)]

\* rcDesigner.py 58-62: (A_req, a_val), or the raised ValueError
required_As_result(A_req, b, fck, fy) ==
    IF A_req = NoneVal THEN ValueErrorVal
    ELSE [kind |-> "tuple",
          A_req |-> A_req.v,
          a_val |-> RDiv(RMul(A_req.v, fy), RMul(RMul(RQ(85, 100), fck), b))]

\* rcDesigner.py 43-62: fck = 0 or b = 0 divides by zero at 55, phi = 0 at
\* 57, and fy = 0 makes a_coef, b_coef and the discriminant zero, so that
\* solve_quadratic divides by 2*a_coef = 0 (35)
calculate_required_As(Mu, d, b, fck, fy, phi) ==
    IF RSign(fck) = 0 \/ RSign(b) = 0 \/ RSign(phi) = 0 \/ RSign(fy) = 0
    THEN ZeroDivisionErrorVal
    ELSE The({ The({ required_As_result(A_req, b, fck, fy)
                     : A_req \in {solve_quadratic(k.a_coef, k.b_coef,
                                                  k.c_coef)} })
               : k \in {required_As_coefs(Mu, d, b, fck, fy, phi)} })

(***************************************************************************)
(* Design flexural strength.                                               *)
(***************************************************************************)
\* gptils.py 128-133, gptils_2.py 80-83: a = As*fy / (0.85*fck*b),
\* c = a / beta and Mn = As*fy*(d - beta*c), in N-mm
nominal_moment(As, b, d, fck, fy, beta) ==
    The({ RMul(RMul(As, fy), RSub(d, RMul(beta, RDiv(a, beta))))
          : a \in {RDiv(RMul(As, fy), RMul(RMul(RQ(85, 100), fck), b))} })

\* gptils.py 120-141: returns (Mn, phi_Mn), Mn being the N-mm value
gptils_calculate_design_flexural_strength(As, b, d, c, fck, fy, phi, beta) ==
    The({ [kind |-> "tuple",
           Mn |-> Mn,
           phi_Mn |-> RMul(phi, RDiv(Mn, R(1000000)))]
          : Mn \in {nominal_moment(As, b, d, fck, fy, beta)} })

\* gptils_2.py 79-86: returns (Mn_kNm, phi_Mn)
gptils_2_calculate_design_flexural_strength(As_use, b, d, c, fck, fy, phi, beta) ==
    The({ [kind |-> "tuple", Mn |-> Mn_kNm, phi_Mn |-> RMul(phi, Mn_kNm)]
          : Mn_kNm \in {RDiv(nominal_moment(As_use, b, d, fck, fy, beta),
                             R(1000000))} })

(***************************************************************************)
(* Minimum and maximum steel.  As_req and As_use are Python values: a      *)
(* float Val(x), or NoneVal when the argument is absent.                   *)
(***************************************************************************)
\* Python's max of a list of one to three floats
PyMax(s) ==
    IF Len(s) = 1 THEN s[1]
    ELSE IF Len(s) = 2 THEN RMax(s[1], s[2])
    ELSE RMax(RMax(s[1], s[2]), s[3])

\* gptils.py 54-63, utils.py 82-92, gptils_2.py 52-55 (As_min_c apart), for
\* fck >= 0 and fy # 0
min_rebar_candidates(b, d, fck, fy, As_min_c) ==
    <<RMul(RMul(RDiv(RMul(RQ(25, 100), float_pow(fck, RQ(1, 2))), fy), b),
           d),
      RMul(RMul(RDiv(RQ(14, 10), fy), b), d),
      As_min_c>>

\* gptils.py 70-76, utils.py 100-111, gptils_2.py 61-64: As_min is the
\* greatest of the candidates left, 0 without one; As_max = 0.04*b*d
\* a faulty min_max_of: As_max = 0.004*b*d
min_max_of_small_max(filtered0, b, d) ==
    The({ [kind |-> "tuple",
           As_min |-> IF filtered = <<>> THEN R(0) ELSE PyMax(filtered),
           As_max |-> RMul(RMul(RQ(4, 1000), b), d)]
          : filtered \in {filtered0} })

min_max_of(filtered0, b, d) ==
    The({ [kind |-> "tuple",
           As_min |-> IF filtered = <<>> THEN R(0) ELSE PyMax(filtered),
           As_max |-> RMul(RMul(RQ(4, 100), b), d)]
          : filtered \in {filtered0} })

\* gptils.py 65-69, utils.py 95-99: the candidates <= As_use when As_use is
\* not None
\* a faulty filter_candidates: no candidate is discarded
filter_candidates_off(candidates0, As_use) == candidates0

filter_candidates(candidates0, As_use) ==
    The({ IF As_use # NoneVal
          THEN SelectSeq(candidates, LAMBDA val : RLe(val, As_use.v))
          ELSE candidates
          : candidates \in {candidates0} })

\* gptils.py 42-78: fck**0.5 / fy raises ZeroDivisionError for fy = 0; for
\* fck < 0 the power is a complex number, and the comparison of the first
\* candidate with As_use, or max without As_use, raises TypeError
gptils_calc_min_max_rebar(b, d, fck, fy, As_req, As_use) ==
    IF RSign(fy) = 0 THEN ZeroDivisionErrorVal
    ELSE IF RSign(fck) < 0 THEN TypeErrorVal
    ELSE min_max_of(
             filter_candidates(
                 min_rebar_candidates(b, d, fck, fy,
                     IF As_req # NoneVal
                     THEN RMul(RDiv(R(4), R(3)), As_req.v) ELSE R(0)),
                 As_use),
             b, d)

\* utils.py 63-113: fck**0.5 / fy raises ZeroDivisionError for fy = 0; for
\* fck < 0 the power is a complex number, and the comparison of the first
\* candidate with As_use, or max without As_use, raises TypeError
utils_calc_min_max_rebar(b, d, fck, fy, As_req, As_use) ==
    IF RSign(fy) = 0 THEN ZeroDivisionErrorVal
    ELSE IF RSign(fck) < 0 THEN TypeErrorVal
    ELSE min_max_of(
             filter_candidates(
                 min_rebar_candidates(b, d, fck, fy,
                     IF As_req # NoneVal
                     THEN RMul(RDiv(R(4), R(3)), As_req.v) ELSE R(0)),
                 As_use),
             b, d)

\* Python truthiness of an optional float: None and 0.0 are false
Truthy(x) == x # NoneVal /\ RSign(x.v) # 0

\* gptils_2.py 57-60: the candidates <= As_use when As_use is truthy
filter_candidates_truthy(candidates0, As_use) ==
    The({ IF Truthy(As_use)
          THEN SelectSeq(candidates, LAMBDA val : RLe(val, As_use.v))
          ELSE candidates
          : candidates \in {candidates0} })

\* gptils_2.py 50-65: ZeroDivisionError for fy = 0, and TypeError for
\* fck < 0 as in gptils.py
gptils_2_calc_min_max_rebar(b, d, fck, fy, As_req, As_use) ==
    IF RSign(fy) = 0 THEN ZeroDivisionErrorVal
    ELSE IF RSign(fck) < 0 THEN TypeErrorVal
    ELSE min_max_of(
             filter_candidates_truthy(
                 min_rebar_candidates(b, d, fck, fy,
                     IF Truthy(As_req)
                     THEN RMul(RDiv(R(4), R(3)), As_req.v) ELSE R(0)),
                 As_use),
             b, d)

(***************************************************************************)
(* Neutral-axis depth.                                                     *)
(***************************************************************************)
\* the returned (c, cmax, c_ok) with c_ok = (c <= cmax)
neutral_axis_result(c0, cmax0) ==
    The({ [kind |-> "tuple", c |-> c, cmax |-> cmax, c_ok |-> RLe(c, cmax)]
          : c \in {c0}, cmax \in {cmax0} })

\* a faulty gptils.check_neutral_axis_depth: c measured from the tension
\* face, d - numerator / denominator
gptils_check_neutral_axis_depth_from_below(As_use, b, d, fck, fy, phi_c, phi_s) ==
    neutral_axis_result(
        RSub(d, RDiv(RMul(RMul(phi_s, As_use), fy),
                     RMul(RMul(RMul(RMul(RQ(80, 100), phi_c), RQ(85, 100)),
                               fck), b))),
        RMul(RQ(4, 10), d))

\* gptils.py 81-95 (alpha = 0.80)
gptils_check_neutral_axis_depth(As_use, b, d, fck, fy, phi_c, phi_s) ==
    neutral_axis_result(
        RDiv(RMul(RMul(phi_s, As_use), fy),
             RMul(RMul(RMul(RMul(RQ(80, 100), phi_c), RQ(85, 100)), fck), b)),
        RMul(RQ(4, 10), d))

\* gptils_2.py 67-73
gptils_2_check_neutral_axis_depth(As_use, b, d, fck, fy, phi_c, phi_s) ==
    neutral_axis_result(
        RDiv(RMul(RMul(phi_s, As_use), fy),
             RMul(RMul(RMul(RMul(RQ(80, 100), phi_c), RQ(85, 100)), fck), b)),
        RMul(RQ(4, 10), d))

\* utils.py 115-134
utils_check_neutral_axis_depth(As_use, b, d, fck, fy, phi_c, phi_s) ==
    neutral_axis_result(
        RDiv(RMul(RMul(phi_s, As_use), fy),
             RMul(RMul(RMul(RMul(RQ(80, 100), phi_c), RQ(85, 100)), fck), b)),
        RMul(RQ(4, 10), d))

(***************************************************************************)
(* Tensile strain of the steel.                                            *)
(***************************************************************************)
\* a faulty strain: the lever arm d - c taken over the depth d instead of
\* over c
tensile_strain_over_d(d, c, eps_cu) == RMul(RDiv(RSub(d, c), d), eps_cu)

\* gptils_2.py 76, gptils.py 103, utils.py 141:
\* eps_s = (d - c) / c * eps_cu, for c # 0
tensile_strain(d, c, eps_cu) == RMul(RDiv(RSub(d, c), c), eps_cu)

\* rcT-beamDesigner(gpt)_2.py 83-84, rcT-beamDesigner(gpt).py 76-79:
\* eps_yd = (0.9 * fy) / 200000 and is_yield = (eps_s >= eps_yd)
is_yield(fy, eps_s) ==
    RLe(RDiv(RMul(RQ(90, 100), fy), R(200000)), eps_s)

\* gptils.py 98-104: eps_s = (d - c) / c * eps_cu; the division raises
\* ZeroDivisionError when c = 0
gptils_compute_tensile_strain(d, c, eps_cu) ==
    IF RSign(c) = 0 THEN ZeroDivisionErrorVal
    ELSE Val(tensile_strain(d, c, eps_cu))

\* gptils_2.py 75-77
gptils_2_compute_tensile_strain(d, c, eps_cu) ==
    IF RSign(c) = 0 THEN ZeroDivisionErrorVal
    ELSE Val(tensile_strain(d, c, eps_cu))

\* utils.py 136-142
utils_compute_tensile_strain(d, c, eps_cu) ==
    IF RSign(c) = 0 THEN ZeroDivisionErrorVal
    ELSE Val(tensile_strain(d, c, eps_cu))

(***************************************************************************)
(* Shear capacity.                                                         *)
(***************************************************************************)
\* gptils.py 144: k = min(1 + sqrt(200 / d), 2), for d > 0
shear_size_factor(d) == RMin(RAdd(R(1), RSqrt(RDiv(R(200), d))), R(2))

\* a faulty shear_check_result: the verdict is Vcd <= Vu * 1e3
shear_check_result_reversed(Vu, b, d, fck, phi_c) ==
    The({ [kind |-> "tuple",
           Vcd |-> Vcd,
           Vcd_min |-> RMul(RMul(RMul(RMul(RQ(4, 10), phi_c),
                                      RMul(RQ(63, 100), RSqrt(fck))), b), d),
           pass |-> RLe(Vcd, RMul(Vu, R(1000)))]
          : Vcd \in {RMul(RMul(RMul(RMul(RMul(RQ(85, 100), phi_c),
                                          shear_size_factor(d)),
                                     RMul(RQ(17, 100), RCbrt(fck))), b), d)} })

\* gptils.py 145-148: Vcd, Vcd_min (N) and Vcd >= Vu * 1e3, for d > 0 and
\* fck >= 0
shear_check_result(Vu, b, d, fck, phi_c) ==
    The({ [kind |-> "tuple",
           Vcd |-> Vcd,
           Vcd_min |-> RMul(RMul(RMul(RMul(RQ(4, 10), phi_c),
                                      RMul(RQ(63, 100), RSqrt(fck))), b), d),
           pass |-> RLe(RMul(Vu, R(1000)), Vcd)]
          : Vcd \in {RMul(RMul(RMul(RMul(RMul(RQ(85, 100), phi_c),
                                          shear_size_factor(d)),
                                     RMul(RQ(17, 100), RCbrt(fck))), b), d)} })

\* gptils.py 143-148: 200 / d raises ZeroDivisionError for d = 0, math.sqrt
\* raises ValueError for 200 / d < 0 and, after fck**(1/3) has given a
\* complex number, for fck < 0
gptils_shear_check(Vu, b, d, fck, phi_c) ==
    IF RSign(d) = 0 THEN ZeroDivisionErrorVal
    ELSE IF RSign(d) < 0 \/ RSign(fck) < 0 THEN ValueErrorVal
    ELSE shear_check_result(Vu, b, d, fck, phi_c)

\* gptils_2.py 88-94
gptils_2_shear_check(Vu, b, d, fck, phi_c) ==
    IF RSign(d) = 0 THEN ZeroDivisionErrorVal
    ELSE IF RSign(d) < 0 \/ RSign(fck) < 0 THEN ValueErrorVal
    ELSE shear_check_result(Vu, b, d, fck, phi_c)

(***************************************************************************)
(* Serviceability: edge stress of the uncracked section, crack width.      *)
(***************************************************************************)
\* gptils.py 166-169: ft = Mu * 1e6 / Z and fct = 0.23 * fck**(2/3), for
\* Z # 0 and fck >= 0
edge_stress_result(Mu, Z, fck) ==
    The({ [kind |-> "tuple", ft |-> ft, fct |-> fct, pass |-> RLe(ft, fct)]
          : ft \in {RDiv(RMul(Mu, R(1000000)), Z)},
            fct \in {RMul(RQ(23, 100), RCbrt2(fck))} })

\* gptils.py 165-169: Mu * 1e6 / Z raises ZeroDivisionError for Z = 0; for
\* fck < 0, fck**(2/3) is a complex number and ft <= fct raises TypeError
gptils_serviceability_check(Mu, b, h, fck) ==
    The({ IF RSign(Z) = 0 THEN ZeroDivisionErrorVal
          ELSE IF RSign(fck) < 0 THEN TypeErrorVal
          ELSE edge_stress_result(Mu, Z, fck)
          : Z \in {RDiv(RMul(b, float_pow(h, R(2))), R(6))} })

\* gptils_2.py 113-118
gptils_2_serviceability_check(Mu, b, h, fck) ==
    The({ IF RSign(Z) = 0 THEN ZeroDivisionErrorVal
          ELSE IF RSign(fck) < 0 THEN TypeErrorVal
          ELSE edge_stress_result(Mu, Z, fck)
          : Z \in {RDiv(RMul(b, float_pow(h, R(2))), R(6))} })

\* rcT-beamDesigner(xlsx2pdf).py 127-133: fct, Z, ft and
\* crack_check = (ft <= fct), computed in generate_rc_report itself
xlsx2pdf_crack_check(Mu, b, h, fck) ==
    The({ IF RSign(Z) = 0 THEN ZeroDivisionErrorVal
          ELSE IF RSign(fck) < 0 THEN TypeErrorVal
          ELSE edge_stress_result(Mu, Z, fck)
          : Z \in {RDiv(RMul(b, float_pow(h, R(2))), R(6))} })

\* rcT-beamDesigner.py 168-174: the verdict create_section_page prints under
\* "[1. ...]" for the ft of its calc dictionary (0 when calc has no ft)
create_section_page_crack1(calc_ft) ==
    [kind |-> "text",
     ft |-> calc_ft,
     pass |-> RLe(RQ(26, 10), IF calc_ft = NoneVal THEN R(0) ELSE calc_ft.v)]

\* a faulty crack_width_check: the allowable width is 3 mm
crack_width_check_wide(d, c, eps_s) ==
    The({ [kind |-> "tuple", w |-> w, pass |-> RLe(w, R(3))]
          : w \in {RMul(RMul(RSub(d, c), eps_s), RQ(6, 10))} })

\* rcT-beamDesigner(gpt).py 122-124 (rcT-beamDesigner(gpt)_2.py 129-131):
\* w = (d - c) * eps_s * 0.6 against the allowable 0.3 mm
crack_width_check(d, c, eps_s) ==
    The({ [kind |-> "tuple", w |-> w, pass |-> RLe(w, RQ(3, 10))]
          : w \in {RMul(RMul(RSub(d, c), eps_s), RQ(6, 10))} })

(***************************************************************************)
(* The simplified shear model                                              *)
(***************************************************************************)
\* a faulty calc_shear_result: Vs = Vu - Vc also when Vu <= Vc
calc_shear_result_unclamped(Vu, Vc0) ==
    The({ [kind |-> "tuple", ok |-> TRUE, Vc |-> Vc, Vs |-> RSub(Vu, Vc)]
          : Vc \in {Vc0} })

\* utils.py 54-61: (True, Vc, 0.0) when Vu <= Vc, (True, Vc, Vu - Vc)
\* otherwise: the flag is True on both branches
calc_shear_result(Vu, Vc0) ==
    The({ IF RLe(Vu, Vc)
          THEN [kind |-> "tuple", ok |-> TRUE, Vc |-> Vc, Vs |-> R(0)]
          ELSE [kind |-> "tuple", ok |-> TRUE, Vc |-> Vc,
                Vs |-> RSub(Vu, Vc)]
          : Vc \in {Vc0} })

\* utils.py 45-61: Vc = 0.53 * (fck**0.5) * b * d * 1e-3 (kN); fy, phi_c
\* and phi_s are not read.  For fck < 0 the power is a complex number and
\* the comparison Vu <= Vc raises TypeError
utils_calc_shear_check(Vu, b, d, fck) ==
    IF RSign(fck) < 0 THEN TypeErrorVal
    ELSE calc_shear_result(Vu,
                           RMul(RMul(RMul(RMul(RQ(53, 100),
                                               float_pow(fck, RQ(1, 2))), b),
                                     d),
                                RQ(1, 1000)))

\* gptils.py 107-118
gptils_calc_shear_check(Vu, b, d, fck) ==
    IF RSign(fck) < 0 THEN TypeErrorVal
    ELSE calc_shear_result(Vu,
                           RMul(RMul(RMul(RMul(RQ(53, 100),
                                               float_pow(fck, RQ(1, 2))), b),
                                     d),
                                RQ(1, 1000)))

\* rcT-beamDesigner(xlsx2pdf).py 53-69
xlsx2pdf_calc_shear_check(Vu, b, d, fck) ==
    IF RSign(fck) < 0 THEN TypeErrorVal
    ELSE calc_shear_result(Vu,
                           RMul(RMul(RMul(RMul(RQ(53, 100),
                                               float_pow(fck, RQ(1, 2))), b),
                                     d),
                                RQ(1, 1000)))

(***************************************************************************)
(* Stirrup spacing                                                         *)
(***************************************************************************)
\* math.tan(math.radians(theta)) for the whole degrees theta = 0, 1, ...,
\* 180, as the C library gives it (the doubles are listed, they are not
\* recomputed): 0.0 for 0 degrees, 1.633123935319537e16 (not infinity) for
\* 90, negative for obtuse angles and -1.2246467991473532e-16 (not zero)
\* for 180
TanRadians ==
    <<
       \* 0 degrees: 0.0
       RZero,
       \* 1 degrees: 0.017455064928217585
       Double(FALSE, <<4625, 10273, 15852, 571>>, -57),
       \* 2 degrees: 0.03492076949174773
       Double(FALSE, <<4065, 11180, 2324, 572>>, -56),
       \* 3 degrees: 0.05240777928304121
       Double(FALSE, <<15987, 4252, 4884, 1717>>, -57),
       \* 4 degrees: 0.06992681194351041
       Double(FALSE, <<3201, 14953, 6884, 286>>, -54),
       \* 5 degrees: 0.08748866352592401
       Double(FALSE, <<5601, 4725, 6787, 1433>>, -56),
       \* 6 degrees: 0.10510423526567647
       Double(FALSE, <<9139, 14993, 4152, 215>>, -53),
       \* 7 degrees: 0.1227845609029046
       Double(FALSE, <<3737, 13072, 13944, 1005>>, -55),
       \* 8 degrees: 0.14054083470239145
       Double(FALSE, <<4069, 8601, 5087, 1151>>, -55),
       \* 9 degrees: 0.15838444032453627
       Double(FALSE, <<3985, 11975, 7951, 1297>>, -55),
       \* 10 degrees: 0.17632698070846498
       Double(FALSE, <<13039, 11205, 1927, 361>>, -53),
       \* 11 degrees: 0.19438030913771848
       Double(FALSE, <<10075, 11963, 2977, 796>>, -54),
       \* 12 degrees: 0.21255656167002213
       Double(FALSE, <<2259, 11382, 5174, 435>>, -53),
       \* 13 degrees: 0.23086819112556312
       Double(FALSE, <<1381, 329, 13403, 472>>, -53),
       \* 14 degrees: 0.24932800284318068
       Double(FALSE, <<2005, 8472, 10219, 510>>, -53),
       \* 15 degrees: 0.2679491924311227
       Double(FALSE, <<9899, 15677, 12450, 548>>, -53),
       \* 16 degrees: 0.2867453857588079
       Double(FALSE, <<7569, 8974, 4170, 587>>, -53),
       \* 17 degrees: 0.3057306814586604
       Double(FALSE, <<11099, 11839, 4470, 1252>>, -54),
       \* 18 degrees: 0.3249196962329063
       Double(FALSE, <<12503, 13970, 7135, 665>>, -53),
       \* 19 degrees: 0.34432761328966527
       Double(FALSE, <<5651, 15920, 5994, 1410>>, -54),
       \* 20 degrees: 0.36397023426620234
       Double(FALSE, <<181, 3897, 11559, 372>>, -52),
       \* 21 degrees: 0.3838640350354158
       Double(FALSE, <<3715, 10827, 2515, 786>>, -53),
       \* 22 degrees: 0.4040262258351568
       Double(FALSE, <<12341, 3338, 14052, 25>>, -48),
       \* 23 degrees: 0.42447481620960476
       Double(FALSE, <<8863, 11672, 10630, 1738>>, -54),
       \* 24 degrees: 0.4452286853085362
       Double(FALSE, <<1287, 10578, 13571, 911>>, -53),
       \* 25 degrees: 0.4663076581549986
       Double(FALSE, <<6833, 3494, 16321, 1909>>, -54),
       \* 26 degrees: 0.48773258856586144
       Double(FALSE, <<5949, 16197, 7178, 499>>, -52),
       \* 27 degrees: 0.5095254494944288
       Double(FALSE, <<14167, 4289, 14369, 260>>, -51),
       \* 28 degrees: 0.5317094316614788
       Double(FALSE, <<12215, 16254, 3853, 272>>, -51),
       \* 29 degrees: 0.554309051452769
       Double(FALSE, <<14783, 6126, 3685, 1135>>, -53),
       \* 30 degrees: 0.5773502691896257
       Double(FALSE, <<3271, 1424, 9885, 295>>, -51),
       \* 31 degrees: 0.6008606190275604
       Double(FALSE, <<12189, 12822, 9216, 1230>>, -53),
       \* 32 degrees: 0.6248693519093275
       Double(FALSE, <<9493, 2908, 12000, 1279>>, -53),
       \* 33 degrees: 0.6494075931975106
       Double(FALSE, <<5647, 15175, 16166, 1329>>, -53),
       \* 34 degrees: 0.6745085168424267
       Double(FALSE, <<8979, 1325, 11415, 690>>, -52),
       \* 35 degrees: 0.7002075382097097
       Double(FALSE, <<8125, 1857, 205, 717>>, -52),
       \* 36 degrees: 0.7265425280053609
       Double(FALSE, <<13635, 13943, 15713, 1487>>, -53),
       \* 37 degrees: 0.7535540501027942
       Double(FALSE, <<11121, 6279, 7453, 96>>, -49),
       \* 38 degrees: 0.7812856265067174
       Double(FALSE, <<9801, 11691, 597, 800>>, -52),
       \* 39 degrees: 0.809784033195007
       Double(FALSE, <<5147, 10457, 3585, 829>>, -52),
       \* 40 degrees: 0.8390996311772799
       Double(FALSE, <<16157, 8446, 7799, 1718>>, -53),
       \* 41 degrees: 0.8692867378162267
       Double(FALSE, <<3345, 12002, 4902, 1780>>, -53),
       \* 42 degrees: 0.9004040442978399
       Double(FALSE, <<95, 4537, 450, 1844>>, -53),
       \* 43 degrees: 0.9325150861376618
       Double(FALSE, <<7351, 766, 12958, 1909>>, -53),
       \* 44 degrees: 0.9656887748070739
       Double(FALSE, <<4657, 2682, 14177, 988>>, -52),
       \* 45 degrees: 0.9999999999999999
       Double(FALSE, <<16383, 16383, 16383, 2047>>, -53),
       \* 46 degrees: 1.0355303137905696
       Double(FALSE, <<14871, 14327, 3137, 530>>, -51),
       \* 47 degrees: 1.0723687100246826
       Double(FALSE, <<15655, 6060, 8624, 274>>, -50),
       \* 48 degrees: 1.110612514829193
       Double(FALSE, <<995, 878, 4378, 1137>>, -52),
       \* 49 degrees: 1.1503684072210094
       Double(FALSE, <<6785, 4055, 16011, 1177>>, -52),
       \* 50 degrees: 1.19175359259421
       Double(FALSE, <<10559, 11810, 2913, 610>>, -51),
       \* 51 degrees: 1.2348971565350515
       Double(FALSE, <<7407, 5455, 8760, 1264>>, -52),
       \* 52 degrees: 1.2799416321930788
       Double(FALSE, <<14095, 10081, 5408, 655>>, -51),
       \* 53 degrees: 1.3270448216204098
       Double(FALSE, <<7971, 11497, 14118, 169>>, -49),
       \* 54 degrees: 1.3763819204711734
       Double(FALSE, <<13679, 1593, 2898, 176>>, -49),
       \* 55 degrees: 1.4281480067421144
       Double(FALSE, <<8487, 9651, 6939, 1462>>, -52),
       \* 56 degrees: 1.4825609685127403
       Double(FALSE, <<10675, 9861, 2333, 1518>>, -52),
       \* 57 degrees: 1.539864963814583
       Double(FALSE, <<14343, 9082, 6731, 788>>, -51),
       \* 58 degrees: 1.6003345290410507
       Double(FALSE, <<8323, 540, 6083, 819>>, -51),
       \* 59 degrees: 1.6642794823505183
       Double(FALSE, <<9643, 1473, 910, 426>>, -50),
       \* 60 degrees: 1.7320508075688767
       Double(FALSE, <<2453, 13356, 11509, 221>>, -49),
       \* 61 degrees: 1.8040477552714236
       Double(FALSE, <<499, 14164, 5650, 1847>>, -52),
       \* 62 degrees: 1.8807264653463318
       Double(FALSE, <<4809, 1196, 15269, 962>>, -51),
       \* 63 degrees: 1.9626105055051504
       Double(FALSE, <<11839, 4479, 9946, 125>>, -48),
       \* 64 degrees: 2.050303841579296
       Double(FALSE, <<4583, 3406, 12379, 1049>>, -51),
       \* 65 degrees: 2.1445069205095586
       Double(FALSE, <<4837, 14900, 16179, 1097>>, -51),
       \* 66 degrees: 2.2460367739042164
       Double(FALSE, <<8377, 408, 16145, 574>>, -50),
       \* 67 degrees: 2.355852365823753
       Double(FALSE, <<11075, 22, 1609, 603>>, -50),
       \* 68 degrees: 2.4750868534162964
       Double(FALSE, <<13783, 6213, 4005, 1267>>, -51),
       \* 69 degrees: 2.6050890646938005
       Double(FALSE, <<14209, 15872, 13198, 1333>>, -51),
       \* 70 degrees: 2.7474774194546216
       Double(FALSE, <<13015, 993, 11607, 1406>>, -51),
       \* 71 degrees: 2.904210877675822
       Double(FALSE, <<12511, 9865, 15662, 1486>>, -51),
       \* 72 degrees: 3.077683537175253
       Double(FALSE, <<11223, 6073, 14532, 787>>, -50),
       \* 73 degrees: 3.2708526184841404
       Double(FALSE, <<10013, 7245, 11084, 1674>>, -51),
       \* 74 degrees: 3.4874144438409087
       Double(FALSE, <<10345, 11516, 9112, 1785>>, -51),
       \* 75 degrees: 3.7320508075688776
       Double(FALSE, <<4907, 10328, 6635, 955>>, -50),
       \* 76 degrees: 4.0107809335358455
       Double(FALSE, <<5061, 8399, 12450, 1026>>, -50),
       \* 77 degrees: 4.331475874284157
       Double(FALSE, <<11595, 4795, 7027, 554>>, -49),
       \* 78 degrees: 4.704630109478451
       Double(FALSE, <<15953, 1815, 8981, 150>>, -47),
       \* 79 degrees: 5.144554015970307
       Double(FALSE, <<3209, 15334, 10251, 164>>, -47),
       \* 80 degrees: 5.671281819617707
       Double(FALSE, <<8499, 346, 13896, 1451>>, -50),
       \* 81 degrees: 6.313751514675041
       Double(FALSE, <<9769, 3817, 5249, 1616>>, -50),
       \* 82 degrees: 7.115369722384207
       Double(FALSE, <<11635, 13828, 12571, 910>>, -49),
       \* 83 degrees: 8.144346427974593
       Double(FALSE, <<12799, 3277, 3902, 521>>, -48),
       \* 84 degrees: 9.514364454222587
       Double(FALSE, <<1817, 9101, 3765, 152>>, -46),
       \* 85 degrees: 11.430052302761348
       Double(FALSE, <<7141, 767, 765, 1463>>, -49),
       \* 86 degrees: 14.300666256711942
       Double(FALSE, <<2901, 11639, 10179, 457>>, -47),
       \* 87 degrees: 19.08113668772816
       Double(FALSE, <<2443, 12254, 10634, 152>>, -45),
       \* 88 degrees: 28.636253282915515
       Double(FALSE, <<6211, 15112, 11799, 1832>>, -48),
       \* 89 degrees: 57.289961630759144
       Double(FALSE, <<6729, 6610, 4567, 1833>>, -47),
       \* 90 degrees: 1.633123935319537e+16
       Double(FALSE, <<3509, 12487, 10599, 1856>>, 1),
       \* 91 degrees: -57.28996163075955
       Double(TRUE, <<3393, 11497, 10475, 916>>, -46),
       \* 92 degrees: -28.636253282915614
       Double(TRUE, <<6239, 15112, 11799, 1832>>, -48),
       \* 93 degrees: -19.081136687728208
       Double(TRUE, <<3173, 16113, 3157, 1221>>, -48),
       \* 94 degrees: -14.30066625671192
       Double(TRUE, <<9641, 14011, 13281, 228>>, -46),
       \* 95 degrees: -11.430052302761336
       Double(TRUE, <<11759, 8575, 8574, 731>>, -48),
       \* 96 degrees: -9.514364454222576
       Double(TRUE, <<7265, 3636, 15062, 608>>, -48),
       \* 97 degrees: -8.144346427974602
       Double(TRUE, <<9219, 6555, 7804, 1042>>, -49),
       \* 98 degrees: -7.115369722384213
       Double(TRUE, <<6893, 11273, 8759, 1821>>, -50),
       \* 99 degrees: -6.313751514675046
       Double(TRUE, <<13079, 10100, 2624, 808>>, -49),
       \* 100 degrees: -5.671281819617711
       Double(TRUE, <<5159, 43, 7881, 181>>, -47),
       \* 101 degrees: -5.144554015970311
       Double(TRUE, <<6419, 14284, 4119, 329>>, -48),
       \* 102 degrees: -4.704630109478454
       Double(TRUE, <<12939, 14527, 6312, 1204>>, -50),
       \* 103 degrees: -4.331475874284155
       Double(TRUE, <<6803, 9591, 14054, 1108>>, -50),
       \* 104 degrees: -4.010780933535844
       Double(TRUE, <<5059, 8399, 12450, 1026>>, -50),
       \* 105 degrees: -3.7320508075688763
       Double(TRUE, <<9811, 4272, 13271, 1910>>, -51),
       \* 106 degrees: -3.48741444384091
       Double(TRUE, <<2587, 2879, 6374, 446>>, -49),
       \* 107 degrees: -3.270852618484142
       Double(TRUE, <<10017, 7245, 11084, 1674>>, -51),
       \* 108 degrees: -3.077683537175254
       Double(TRUE, <<3451, 8951, 7960, 98>>, -47),
       \* 109 degrees: -2.904210877675823
       Double(TRUE, <<12513, 9865, 15662, 1486>>, -51),
       \* 110 degrees: -2.7474774194546225
       Double(TRUE, <<13017, 993, 11607, 1406>>, -51),
       \* 111 degrees: -2.6050890646938014
       Double(TRUE, <<14211, 15872, 13198, 1333>>, -51),
       \* 112 degrees: -2.4750868534162955
       Double(TRUE, <<13781, 6213, 4005, 1267>>, -51),
       \* 113 degrees: -2.3558523658237527
       Double(TRUE, <<5765, 45, 3218, 1206>>, -51),
       \* 114 degrees: -2.2460367739042155
       Double(TRUE, <<1047, 2099, 14306, 71>>, -47),
       \* 115 degrees: -2.1445069205095595
       Double(TRUE, <<4839, 14900, 16179, 1097>>, -51),
       \* 116 degrees: -2.0503038415792956
       Double(TRUE, <<2291, 9895, 14381, 524>>, -50),
       \* 117 degrees: -1.962610505505151
       Double(TRUE, <<9203, 6139, 11684, 2009>>, -52),
       \* 118 degrees: -1.8807264653463314
       Double(TRUE, <<8793, 10389, 6004, 120>>, -48),
       \* 119 degrees: -1.804047755271424
       Double(TRUE, <<501, 14164, 5650, 1847>>, -52),
       \* 120 degrees: -1.7320508075688783
       Double(TRUE, <<3247, 8545, 10158, 1773>>, -52),
       \* 121 degrees: -1.6642794823505178
       Double(TRUE, <<2901, 2947, 1820, 852>>, -51),
       \* 122 degrees: -1.6003345290410511
       Double(TRUE, <<2081, 12423, 13808, 204>>, -49),
       \* 123 degrees: -1.5398649638145827
       Double(TRUE, <<12301, 1781, 13463, 1576>>, -52),
       \* 124 degrees: -1.4825609685127408
       Double(TRUE, <<10677, 9861, 2333, 1518>>, -52),
       \* 125 degrees: -1.4281480067421142
       Double(TRUE, <<12435, 13017, 3469, 731>>, -51),
       \* 126 degrees: -1.3763819204711738
       Double(TRUE, <<5565, 6375, 11592, 704>>, -51),
       \* 127 degrees: -1.3270448216204096
       Double(TRUE, <<14615, 10059, 14645, 1358>>, -52),
       \* 128 degrees: -1.2799416321930788
       Double(TRUE, <<14095, 10081, 5408, 655>>, -51),
       \* 129 degrees: -1.234897156535052
       Double(TRUE, <<7409, 5455, 8760, 1264>>, -52),
       \* 130 degrees: -1.19175359259421
       Double(TRUE, <<10559, 11810, 2913, 610>>, -51),
       \* 131 degrees: -1.15036840722101
       Double(TRUE, <<13985, 13301, 8098, 294>>, -50),
       \* 132 degrees: -1.1106125148291928
       Double(TRUE, <<497, 439, 10381, 568>>, -51),
       \* 133 degrees: -1.0723687100246828
       Double(TRUE, <<13469, 7859, 1729, 1098>>, -52),
       \* 134 degrees: -1.0355303137905694
       Double(TRUE, <<13357, 12271, 6275, 1060>>, -52),
       \* 135 degrees: -1.0000000000000002
       Double(TRUE, <<1, 0, 0, 1024>>, -52),
       \* 136 degrees: -0.9656887748070737
       Double(TRUE, <<10531, 1191, 13174, 61>>, -48),
       \* 137 degrees: -0.9325150861376618
       Double(TRUE, <<7351, 766, 12958, 1909>>, -53),
       \* 138 degrees: -0.9004040442978404
       Double(TRUE, <<99, 4537, 450, 1844>>, -53),
       \* 139 degrees: -0.8692867378162267
       Double(TRUE, <<3345, 12002, 4902, 1780>>, -53),
       \* 140 degrees: -0.8390996311772804
       Double(TRUE, <<16161, 8446, 7799, 1718>>, -53),
       \* 141 degrees: -0.809784033195007
       Double(TRUE, <<5147, 10457, 3585, 829>>, -52),
       \* 142 degrees: -0.7812856265067176
       Double(TRUE, <<13093, 14037, 298, 400>>, -51),
       \* 143 degrees: -0.753554050102794
       Double(TRUE, <<7047, 1085, 10475, 771>>, -52),
       \* 144 degrees: -0.726542528005361
       Double(TRUE, <<15697, 7581, 16216, 371>>, -51),
       \* 145 degrees: -0.7002075382097096
       Double(TRUE, <<16249, 3714, 410, 1434>>, -53),
       \* 146 degrees: -0.6745085168424267
       Double(TRUE, <<8979, 1325, 11415, 690>>, -52),
       \* 147 degrees: -0.649407593197511
       Double(TRUE, <<11017, 7587, 16275, 664>>, -52),
       \* 148 degrees: -0.6248693519093275
       Double(TRUE, <<9493, 2908, 12000, 1279>>, -53),
       \* 149 degrees: -0.6008606190275607
       Double(TRUE, <<11645, 400, 7456, 38>>, -48),
       \* 150 degrees: -0.5773502691896257
       Double(TRUE, <<3271, 1424, 9885, 295>>, -51),
       \* 151 degrees: -0.5543090514527691
       Double(TRUE, <<12007, 9567, 12089, 17>>, -47),
       \* 152 degrees: -0.5317094316614787
       Double(TRUE, <<16091, 15866, 15415, 1088>>, -53),
       \* 153 degrees: -0.5095254494944289
       Double(TRUE, <<7517, 775, 8325, 1043>>, -53),
       \* 154 degrees: -0.48773258856586127
       Double(TRUE, <<7409, 15637, 12331, 1997>>, -54),
       \* 155 degrees: -0.46630765815499864
       Double(TRUE, <<3417, 9939, 16352, 954>>, -53),
       \* 156 degrees: -0.4452286853085365
       Double(TRUE, <<2579, 4772, 10759, 1823>>, -54),
       \* 157 degrees: -0.42447481620960476
       Double(TRUE, <<8863, 11672, 10630, 1738>>, -54),
       \* 158 degrees: -0.40402622583515707
       Double(TRUE, <<3397, 688, 14605, 1654>>, -54),
       \* 159 degrees: -0.3838640350354158
       Double(TRUE, <<3715, 10827, 2515, 786>>, -53),
       \* 160 degrees: -0.36397023426620256
       Double(TRUE, <<8283, 10140, 5779, 186>>, -51),
       \* 161 degrees: -0.34432761328966516
       Double(TRUE, <<5649, 15920, 5994, 1410>>, -54),
       \* 162 degrees: -0.32491969623290645
       Double(TRUE, <<8625, 11557, 14271, 1330>>, -54),
       \* 163 degrees: -0.3057306814586602
       Double(TRUE, <<15723, 13767, 8750, 156>>, -51),
       \* 164 degrees: -0.286745385758808
       Double(TRUE, <<15139, 1564, 8341, 1174>>, -54),
       \* 165 degrees: -0.267949192431123
       Double(TRUE, <<3419, 14971, 8517, 1097>>, -54),
       \* 166 degrees: -0.2493280028431807
       Double(TRUE, <<8021, 1120, 8110, 2042>>, -55),
       \* 167 degrees: -0.23086819112556334
       Double(TRUE, <<1383, 329, 13403, 472>>, -53),
       \* 168 degrees: -0.2125565616700221
       Double(TRUE, <<9035, 12760, 4314, 1741>>, -55),
       \* 169 degrees: -0.19438030913771864
       Double(TRUE, <<13231, 14173, 1488, 398>>, -53),
       \* 170 degrees: -0.1763269807084649
       Double(TRUE, <<3001, 12055, 7710, 1444>>, -55),
       \* 171 degrees: -0.1583844403245364
       Double(TRUE, <<10187, 14179, 12167, 648>>, -54),
       \* 172 degrees: -0.14054083470239132
       Double(TRUE, <<12927, 16140, 16030, 35>>, -50),
       \* 173 degrees: -0.12278456090290465
       Double(TRUE, <<3739, 13072, 13944, 1005>>, -55),
       \* 174 degrees: -0.10510423526567673
       Double(TRUE, <<7595, 5260, 455, 1722>>, -56),
       \* 175 degrees: -0.08748866352592402
       Double(TRUE, <<10993, 10554, 11585, 716>>, -55),
       \* 176 degrees: -0.06992681194351064
       Double(TRUE, <<3205, 14953, 6884, 286>>, -54),
       \* 177 degrees: -0.052407779283041175
       Double(TRUE, <<7991, 2126, 10634, 858>>, -56),
       \* 178 degrees: -0.034920769491747904
       Double(TRUE, <<8155, 5976, 4649, 1144>>, -57),
       \* 179 degrees: -0.01745506492821751
       Double(TRUE, <<10499, 5136, 16118, 285>>, -56),
       \* 180 degrees: -1.2246467991473532e-16
       Double(TRUE, <<7175, 3153, 8803, 1129>>, -105) >>

tan_radians(theta) == TanRadians[theta + 1]

\* 1 + 1 / math.tan(math.radians(theta)): 1.0 for 90 degrees and 2.0 for
\* 45; 1 / 0.0 raises ZeroDivisionError
one_plus_cot(theta) ==
    The({ IF RSign(t) = 0 THEN ZeroDivisionErrorVal
          ELSE Val(RAdd(R(1), RDiv(R(1), t)))
          : t \in {tan_radians(theta)} })

\* a faulty shear_spacing_result: the 600 mm cap is not applied
shear_spacing_result_uncapped(d, k0) ==
    The({ IF ~IsFloat(k) THEN k
          ELSE Val(RMul(RMul(RQ(75, 100), d), k.v))
          : k \in {k0} })

\* Smax = min(0.75 * d * (1 + 1 / tan(theta)), 600)
shear_spacing_result(d, k0) ==
    The({ IF ~IsFloat(k) THEN k
          ELSE Val(RMin(RMul(RMul(RQ(75, 100), d), k.v), R(600)))
          : k \in {k0} })

\* gptils.py 155-157 (theta = 90 by default)
gptils_shear_spacing_check(d, theta) ==
    shear_spacing_result(d, one_plus_cot(theta))

\* gptils_2.py 101-103 (theta = 90 by default)
gptils_2_shear_spacing_check(d, theta) ==
    shear_spacing_result(d, one_plus_cot(theta))

(***************************************************************************)
(* The report generators' work on one section (one row of the input        *)
(* sheet): what the loop body computes and prints, or the exception that   *)
(* ends it, with the line that raised it.  trace holds the computations    *)
(* of the iteration in the order in which the statements make them, each   *)
(* entered when its statement is reached.  Of min_shear_rebar and          *)
(* additional_tension only the call is recorded: on the rows considered    *)
(* they return and their values reach no other check.                      *)
(***************************************************************************)
Verdict(p) == IF p THEN "O.K" ELSE "N.G"

\* the computation fn made by the statement at a line
At(fn, line) == [fn |-> fn, line |-> line]

\* the loop body's variables v once the statements of calls have been
\* reached, in this order
Called(v, calls) == [v EXCEPT !.trace = @ \o calls]

\* the loop body's variables before anything is computed
NoVerdicts ==
    [kind |-> "section", error |-> NoneVal, line |-> 0,
     As_req |-> NoneVal, As_use |-> NoneVal, c |-> NoneVal,
     eps_s |-> NoneVal, phi_Mn |-> NoneVal, ratio |-> NoneVal,
     w |-> NoneVal, a_prov |-> NoneVal, prov_ratio |-> NoneVal,
     cover |-> NoneVal, Av_use |-> NoneVal, s |-> NoneVal,
     Smax |-> NoneVal, trace |-> <<>>, c_ok |-> FALSE, is_yield |-> FALSE,
     rebar |-> "none", flexural |-> "none", shear |-> "none",
     spacing |-> "none",
     stress |-> "none", crack_rebar |-> "none", crack_width |-> "none"]

\* the loop body left by the exception e raised at a line, with the
\* variables assigned until then
Raised(locals, e, line) ==
    The({ [v EXCEPT !.kind = "raised", !.error = e, !.line = line]
          : v \in {locals} })

\* rcT-beamDesigner(gpt).py 59-64 (rcT-beamDesigner(gpt)_2.py 65)
rebar_within(As_use, mm0) ==
    The({ RLe(mm.As_min, As_use) /\ RLe(As_use, mm.As_max) : mm \in {mm0} })

\* rcT-beamDesigner(gpt).py 90-124, 160 and 172, in the order of the
\* statements: Av_use, s = 506.8, 125 whatever the row holds (90),
\* shear_check (94), Smax (96), serviceability_check (98), the
\* serviceability checks (114-124), the flexural line of the report, which
\* formats None with ".4f" and raises TypeError when safety_pass is False
\* (160), and the verdict Smax >= s, which only line 172 evaluates
gpt_checks_and_report(s0, v0, sh0, sv0, cw0) ==
    The({ IF sh.kind # "tuple" THEN Raised(v, sh, 94)
          ELSE The({ IF sv.kind # "tuple" THEN Raised(u, sv, 98)
                     ELSE The({ IF v.flexural = "O.K"
                                THEN [w EXCEPT
                                        !.spacing =
                                            Verdict(RLe(w.s.v, w.Smax.v))]
                                ELSE Raised(w, TypeErrorVal, 160)
                                : w \in {Called(
                                            [u EXCEPT
                                               !.stress = Verdict(sv.pass),
                                               !.crack_rebar =
                                                   Verdict(RLe(
                                                       RMul(RMul(RQ(2, 1000),
                                                                 s.b), s.h),
                                                       v.As_use.v)),
                                               !.w = Val(cw.w),
                                               !.crack_width =
                                                   Verdict(cw.pass)],
                                            <<At("stress_check", 117),
                                              At("indirect_crack_check", 120),
                                              At("crack_width_check",
                                                 124)>>)} })
                     : u \in {Called(
                                 [v EXCEPT
                                    !.shear = Verdict(sh.pass),
                                    !.Smax = gptils_shear_spacing_check(s.d,
                                                                        90)],
                                 <<At("min_shear_rebar", 95),
                                   At("shear_spacing_check", 96),
                                   At("additional_tension", 97),
                                   At("serviceability_check", 98)>>)} })
          : s \in {s0},
            v \in {Called([v0 EXCEPT !.Av_use = Val(RQ(5068, 10)),
                                     !.s = Val(R(125))],
                          <<At("shear_check", 94)>>)},
            sh \in {sh0}, sv \in {sv0}, cw \in {cw0} })

\* rcT-beamDesigner(gpt).py 82-84: Mn, phi_Mn, safety_factor = phi_Mn / Mu
\* (ZeroDivisionError for Mu = 0) and safety_pass
gpt_flexural_strength(s0, v0, ds0) ==
    The({ IF RSign(s.Mu) = 0
          THEN Raised([v EXCEPT !.phi_Mn = Val(ds.phi_Mn)],
                      ZeroDivisionErrorVal, 83)
          ELSE The({ gpt_checks_and_report(
                         s,
                         [v EXCEPT
                             !.phi_Mn = Val(ds.phi_Mn),
                             !.ratio = Val(safety_factor),
                             !.flexural = Verdict(RLe(R(1), safety_factor))],
                         gptils_shear_check(s.Vu, s.b, s.d, s.fck,
                                            RQ(65, 100)),
                         gptils_serviceability_check(s.Mu, s.b, s.h, s.fck),
                         crack_width_check(s.d, v.c.v, v.eps_s.v))
                     : safety_factor \in {RDiv(ds.phi_Mn, s.Mu)} })
          : s \in {s0},
            v \in {Called(v0, <<At("calculate_design_flexural_strength",
                                   82)>>)},
            ds \in {ds0} })

\* rcT-beamDesigner(gpt).py 67-79: c and is_c_ok, eps_s and
\* is_yield = (eps_s >= eps_yd) with eps_yd = (0.90 * fy) / 200000; when
\* compute_tensile_strain raises, eps_s and is_yield are the 0.0 and False
\* of lines 72-73
gpt_strain(s0, v0, na0) ==
    The({ The({ IF ~IsFloat(eps_s)
                THEN Raised([v EXCEPT !.c = Val(na.c), !.c_ok = na.c_ok,
                                      !.eps_s = Val(R(0)),
                                      !.is_yield = FALSE],
                            eps_s, 75)
                ELSE gpt_flexural_strength(
                         s,
                         [v EXCEPT !.c = Val(na.c), !.c_ok = na.c_ok,
                                   !.eps_s = eps_s,
                                   !.is_yield = is_yield(s.fy, eps_s.v)],
                         gptils_calculate_design_flexural_strength(
                             v.As_use.v, s.b, s.d, na.c, s.fck, s.fy,
                             RQ(90, 100), RQ(4, 10)))
                : eps_s \in {gptils_compute_tensile_strain(
                                 s.d, na.c, RQ(33, 10000))} })
          : s \in {s0},
            v \in {Called(v0, <<At("check_neutral_axis_depth", 69),
                                At("compute_tensile_strain", 75)>>)},
            na \in {na0} })

\* rcT-beamDesigner(gpt).py 51-69: As_use = As_req * 1.15, the minimum and
\* maximum steel (what calc_min_max_rebar raises leaves the loop body at
\* line 54) and the neutral axis
gpt_steel(s0, As_req0, prev) ==
    The({ The({ The({ IF mm.kind # "tuple" THEN Raised(v, mm, 54)
                      ELSE gpt_strain(
                               s,
                               [v EXCEPT
                                   !.rebar = Verdict(rebar_within(As_use.v,
                                                                  mm))],
                               gptils_check_neutral_axis_depth(
                                   As_use.v, s.b, s.d, s.fck, s.fy,
                                   RQ(65, 100), RQ(90, 100)))
                      : v \in {Called([prev EXCEPT !.As_req = As_req,
                                                   !.As_use = As_use],
                                      <<At("calc_min_max_rebar", 54)>>)},
                        mm \in {gptils_calc_min_max_rebar(
                                    s.b, s.d, s.fck, s.fy, As_req, As_use)} })
                : As_use \in {Val(RMul(As_req.v, RQ(115, 100)))} })
          : s \in {s0}, As_req \in {As_req0} })

\* rcT-beamDesigner(gpt).py 32-194, the statements of the body of
\* generate_rc_report's loop: gptils.required_rebar_area raises ValueError
\* without a solution, and nothing catches it.  prev0 holds the loop body's
\* variables as the iteration before left them (Python keeps them)
gpt_statements(s0, prev0) ==
    The({ The({ IF IsFloat(As_req) THEN gpt_steel(s, As_req, prev)
                ELSE Raised(prev, As_req, 45)
                : As_req \in {gptils_required_rebar_area(
                                  s.Mu, s.b, s.d, s.fck, s.fy,
                                  RQ(90, 100))} })
          : s \in {s0},
            prev \in {Called(prev0, <<At("required_rebar_area", 45)>>)} })

\* one iteration of rcT-beamDesigner(gpt).py's loop: no computation has
\* been made when it starts
gpt_section(s0, prev0) ==
    gpt_statements(s0, [prev0 EXCEPT !.trace = <<>>])

\* rcT-beamDesigner(gpt)_2.py 126-131: w_calc stays 0.0 unless As_use > 0
gpt_2_crack_width(s0, v0) ==
    The({ IF RSign(v.As_use.v) > 0
          THEN crack_width_check(s.d, v.c.v,
                                 gptils_2_compute_tensile_strain(
                                     s.d, v.c.v, RQ(33, 10000)).v)
          ELSE [kind |-> "tuple", w |-> R(0),
                pass |-> RLe(R(0), RQ(30, 100))]
          : s \in {s0}, v \in {v0} })

\* rcT-beamDesigner(gpt)_2.py 98-131, in the order of the statements:
\* shear_check (98), smax = shear_spacing_check(d) and the verdict
\* smax >= s (106-107), serviceability_check (117) and the serviceability
\* checks (118-131), the strain being computed again at line 128 when
\* As_use > 0
\* a faulty gpt_2_checks: serviceability_check is called before the shear
\* computations
gpt_2_checks_serviceability_first(s0, v0, sh0, sv0, cw0) ==
    The({ IF sv.kind # "tuple" THEN Raised(v, sv, 117)
          ELSE The({ IF sh.kind # "tuple" THEN Raised(u, sh, 98)
                     ELSE Called(
                              [u EXCEPT
                                  !.stress = Verdict(sv.pass),
                                  !.crack_rebar =
                                      Verdict(RLe(RMul(RMul(RQ(2, 1000),
                                                            s.b), s.h),
                                                  v.As_use.v)),
                                  !.w = Val(cw.w),
                                  !.crack_width = Verdict(cw.pass)],
                              <<At("indirect_crack_check", 122)>>
                              \o (IF RSign(v.As_use.v) > 0
                                  THEN <<At("compute_tensile_strain", 128)>>
                                  ELSE <<>>)
                              \o <<At("crack_width_check", 131)>>)
                     : u \in {Called(
                                 [v EXCEPT
                                    !.shear = Verdict(sh.pass),
                                    !.Smax = gptils_2_shear_spacing_check(
                                                 s.d, 90),
                                    !.spacing =
                                        Verdict(RLe(
                                            v.s.v,
                                            gptils_2_shear_spacing_check(
                                                s.d, 90).v))],
                                 <<At("shear_check", 98),
                                   At("min_shear_rebar", 102),
                                   At("shear_spacing_check", 106),
                                   At("additional_tension", 110)>>)} })
          : s \in {s0},
            v \in {Called(v0, <<At("serviceability_check", 117)>>)},
            sh \in {sh0}, sv \in {sv0}, cw \in {cw0} })

gpt_2_checks(s0, v0, sh0, sv0, cw0) ==
    The({ IF sh.kind # "tuple" THEN Raised(v, sh, 98)
          ELSE The({ IF sv.kind # "tuple" THEN Raised(u, sv, 117)
                     ELSE Called(
                              [u EXCEPT
                                  !.stress = Verdict(sv.pass),
                                  !.crack_rebar =
                                      Verdict(RLe(RMul(RMul(RQ(2, 1000),
                                                            s.b), s.h),
                                                  v.As_use.v)),
                                  !.w = Val(cw.w),
                                  !.crack_width = Verdict(cw.pass)],
                              <<At("indirect_crack_check", 122)>>
                              \o (IF RSign(v.As_use.v) > 0
                                  THEN <<At("compute_tensile_strain", 128)>>
                                  ELSE <<>>)
                              \o <<At("crack_width_check", 131)>>)
                     : u \in {Called(
                                 [v EXCEPT
                                    !.shear = Verdict(sh.pass),
                                    !.Smax = gptils_2_shear_spacing_check(
                                                 s.d, 90),
                                    !.spacing =
                                        Verdict(RLe(
                                            v.s.v,
                                            gptils_2_shear_spacing_check(
                                                s.d, 90).v))],
                                 <<At("min_shear_rebar", 102),
                                   At("shear_spacing_check", 106),
                                   At("additional_tension", 110),
                                   At("serviceability_check", 117)>>)} })
          : s \in {s0},
            v \in {Called(v0, <<At("shear_check", 98)>>)},
            sh \in {sh0}, sv \in {sv0}, cw \in {cw0} })

\* rcT-beamDesigner(gpt)_2.py 89-91: Mn_kNm, phi_Mn,
\* ratio = (phi_Mn / Mu) if Mu > 0 else 0.0, verdict ratio >= 1.0
gpt_2_flexural_strength(s0, v0, ds0) ==
    The({ The({ The({ gpt_2_checks(
                          s, v,
                          gptils_2_shear_check(s.Vu, s.b, s.d, s.fck,
                                               RQ(65, 100)),
                          gptils_2_serviceability_check(s.Mu, s.b, s.h,
                                                        s.fck),
                          gpt_2_crack_width(s, v))
                      : v \in {[u EXCEPT
                                  !.phi_Mn = Val(ds.phi_Mn),
                                  !.ratio = Val(ratio),
                                  !.flexural = Verdict(RLe(R(1), ratio))]} })
                : ratio \in {IF RSign(s.Mu) > 0 THEN RDiv(ds.phi_Mn, s.Mu)
                             ELSE R(0)} })
          : s \in {s0},
            u \in {Called(v0, <<At("calculate_design_flexural_strength",
                                   89)>>)},
            ds \in {ds0} })

\* a faulty gpt_2_strain: c and eps_s are computed without the guard
\* As_use > 0
gpt_2_strain_unguarded(s0, v0) ==
    The({ The({ The({ IF ~IsFloat(eps_s)
                      THEN Raised([v EXCEPT
                                      !.c = Val(na.c), !.c_ok = na.c_ok,
                                      !.eps_s = Val(R(0)),
                                      !.is_yield = FALSE],
                                  eps_s, 82)
                      ELSE gpt_2_flexural_strength(
                               s,
                               [v EXCEPT
                                   !.c = Val(na.c), !.c_ok = na.c_ok,
                                   !.eps_s = eps_s,
                                   !.is_yield = is_yield(s.fy, eps_s.v)],
                               gptils_2_calculate_design_flexural_strength(
                                   v.As_use.v, s.b, s.d, na.c, s.fck, s.fy,
                                   RQ(90, 100), RQ(4, 10)))
                      : eps_s \in {gptils_2_compute_tensile_strain(
                                       s.d, na.c, RQ(33, 10000))} })
                : na \in {gptils_2_check_neutral_axis_depth(
                              v.As_use.v, s.b, s.d, s.fck, s.fy,
                              RQ(65, 100), RQ(90, 100))} })
          : s \in {s0},
            v \in {Called(v0, <<At("check_neutral_axis_depth", 74),
                                At("compute_tensile_strain", 82)>>)} })

\* rcT-beamDesigner(gpt)_2.py 72-85: c, c_ok, eps_s and is_yield =
\* (eps_s >= eps_yd) with eps_yd = (0.9 * fy) / 200000, left at 0 and False
\* unless As_use > 0, and eps_s and is_yield also when
\* compute_tensile_strain raises
gpt_2_strain(s0, v0) ==
    The({ The({ The({ IF ~IsFloat(eps_s)
                      THEN Raised([v EXCEPT
                                      !.c = Val(na.c), !.c_ok = na.c_ok,
                                      !.eps_s = Val(R(0)),
                                      !.is_yield = FALSE],
                                  eps_s, 82)
                      ELSE gpt_2_flexural_strength(
                               s,
                               [v EXCEPT
                                   !.c = Val(na.c), !.c_ok = na.c_ok,
                                   !.eps_s = eps_s,
                                   !.is_yield =
                                       RSign(v.As_use.v) > 0
                                       /\ is_yield(s.fy, eps_s.v)],
                               gptils_2_calculate_design_flexural_strength(
                                   v.As_use.v, s.b, s.d, na.c, s.fck, s.fy,
                                   RQ(90, 100), RQ(4, 10)))
                      : eps_s \in {IF RSign(v.As_use.v) > 0
                                   THEN gptils_2_compute_tensile_strain(
                                            s.d, na.c, RQ(33, 10000))
                                   ELSE Val(R(0))} })
                : na \in {IF RSign(v.As_use.v) > 0
                          THEN gptils_2_check_neutral_axis_depth(
                                   v.As_use.v, s.b, s.d, s.fck, s.fy,
                                   RQ(65, 100), RQ(90, 100))
                          ELSE [kind |-> "tuple", c |-> R(0),
                                cmax |-> R(0), c_ok |-> FALSE]} })
          : s \in {s0},
            v \in {IF RSign(v0.As_use.v) > 0
                   THEN Called(v0, <<At("check_neutral_axis_depth", 74),
                                     At("compute_tensile_strain", 82)>>)
                   ELSE v0} })

\* rcT-beamDesigner(gpt)_2.py 24-36: the row's fields as the loop body reads
\* them: cover = row.get('cover(mm)', 0), and Av_use = 506.8, s = 125
\* whatever the row holds (the two row.get calls are commented out)
gpt_2_inputs(s0, prev) ==
    The({ [prev EXCEPT
              !.cover = IF s.cover = NoneVal THEN Val(R(0)) ELSE s.cover,
              !.Av_use = Val(RQ(5068, 10)),
              !.s = Val(R(125))]
          : s \in {s0} })

\* rcT-beamDesigner(gpt)_2.py 50-65: As_use = 0.0 when As_req is None,
\* As_req * 1.15 otherwise; the minimum and maximum steel (what
\* calc_min_max_rebar raises leaves the loop body at line 64)
gpt_2_steel(s0, As_req0, prev) ==
    The({ The({ The({ IF mm.kind # "tuple" THEN Raised(v, mm, 64)
                      ELSE gpt_2_strain(
                               s,
                               [v EXCEPT
                                   !.rebar = Verdict(rebar_within(As_use.v,
                                                                  mm))])
                      : v \in {Called([gpt_2_inputs(s, prev) EXCEPT
                                          !.As_req = As_req,
                                          !.As_use = As_use],
                                      <<At("calc_min_max_rebar", 64)>>)},
                        mm \in {gptils_2_calc_min_max_rebar(
                                    s.b, s.d, s.fck, s.fy, As_req, As_use)} })
                : As_use \in {IF As_req = NoneVal THEN Val(R(0))
                              ELSE Val(RMul(As_req.v, RQ(115, 100)))} })
          : s \in {s0}, As_req \in {As_req0} })

\* rcT-beamDesigner(gpt)_2.py 22-135, the statements of the body of
\* generate_rc_report's loop, prev0 holding the loop body's variables as the
\* iteration before left them
gpt_2_statements(s0, prev0) ==
    The({ The({ IF NoSolution(As_req) /\ As_req # NoneVal
                THEN Raised(gpt_2_inputs(s, prev), As_req, 48)
                ELSE gpt_2_steel(s, As_req, prev)
                : As_req \in {gptils_2_required_rebar_area(
                                  s.Mu, s.b, s.d, s.fck, s.fy,
                                  RQ(90, 100))} })
          : s \in {s0},
            prev \in {Called(prev0, <<At("required_rebar_area", 48)>>)} })

\* one iteration of rcT-beamDesigner(gpt)_2.py's loop: no computation has
\* been made when it starts
gpt_2_section(s0, prev0) ==
    gpt_2_statements(s0, [prev0 EXCEPT !.trace = <<>>])

\* rcDesigner.py 86-114: with A_prov given, a_prov, the provided steel's
\* strength, safety_flex = phi_Mn_prov / (Mu * 1e6) (ZeroDivisionError for
\* Mu = 0, with a_prov and phi_Mn_prov assigned) and A_prov / A_req, and
\* None for each of them without A_prov;
\* the shear check, whose math.sqrt(fck) raises ValueError for fck < 0 (96),
\* and the rounded results; the verdict on shear reads "O.K" or "NG"
calculate_section_flexure_and_shear(s0, A_req0, fck, fy, phi) ==
    The({ The({ IF s.A_prov # NoneVal /\ RSign(s.Mu) = 0
                THEN Raised([NoVerdicts EXCEPT
                                !.As_req = Val(A_req),
                                !.As_use = s.A_prov,
                                !.a_prov = Val(RDiv(RMul(s.A_prov.v, fy),
                                                    RMul(RMul(RQ(85, 100),
                                                              fck), s.b))),
                                !.phi_Mn = Val(phi_Mn_prov)],
                            ZeroDivisionErrorVal, 90)
                ELSE IF RSign(fck) < 0
                THEN Raised([NoVerdicts EXCEPT
                                !.As_req = Val(A_req),
                                !.As_use = s.A_prov,
                                !.a_prov =
                                    IF s.A_prov = NoneVal THEN NoneVal
                                    ELSE Val(RDiv(RMul(s.A_prov.v, fy),
                                                  RMul(RMul(RQ(85, 100),
                                                            fck), s.b))),
                                !.phi_Mn =
                                    IF s.A_prov = NoneVal THEN NoneVal
                                    ELSE Val(phi_Mn_prov),
                                !.ratio =
                                    IF s.A_prov = NoneVal THEN NoneVal
                                    ELSE Val(RDiv(phi_Mn_prov,
                                                  RMul(s.Mu, R(1000000))))],
                            ValueErrorVal, 96)
                ELSE [NoVerdicts EXCEPT
                         !.As_req = Val(RRound(A_req, 100)),
                         !.As_use = IF s.A_prov = NoneVal THEN NoneVal
                                    ELSE Val(RRound(s.A_prov.v, 100)),
                         !.phi_Mn = IF s.A_prov = NoneVal THEN NoneVal
                                    ELSE Val(RRound(phi_Mn_prov, 100)),
                         !.a_prov = IF s.A_prov = NoneVal THEN NoneVal
                                    ELSE Val(RRound(
                                             RDiv(RMul(s.A_prov.v, fy),
                                                  RMul(RMul(RQ(85, 100),
                                                            fck), s.b)),
                                             100)),
                         !.prov_ratio = IF s.A_prov = NoneVal THEN NoneVal
                                        ELSE Val(RRound(
                                                 RDiv(s.A_prov.v, A_req),
                                                 100)),
                         !.ratio = IF s.A_prov = NoneVal THEN NoneVal
                                   ELSE Val(RRound(
                                            RDiv(phi_Mn_prov,
                                                 RMul(s.Mu, R(1000000))),
                                            1000)),
                         !.shear =
                             IF RLe(s.Vu,
                                    RDiv(RMul(RMul(RMul(RMul(RQ(80, 100),
                                                             RQ(1, 6)),
                                                        RSqrt(fck)),
                                                   s.b), s.d),
                                         R(1000)))
                             THEN "O.K" ELSE "NG"]
                : phi_Mn_prov \in
                      {IF s.A_prov = NoneVal THEN R(0)
                       ELSE RMul(phi,
                                 RMul(RMul(s.A_prov.v, fy),
                                      RSub(s.d,
                                           RDiv(RDiv(RMul(s.A_prov.v, fy),
                                                     RMul(RMul(RQ(85, 100),
                                                               fck), s.b)),
                                                R(2)))))} })
          : s \in {s0}, A_req \in {A_req0} })

\* rcDesigner.py 64-115: calculate_required_As raises ValueError without a
\* positive root, A_prov being read from the section by then (82)
calculate_section_results(s0, fck, fy, phi) ==
    The({ The({ IF ra.kind # "tuple"
                THEN Raised([NoVerdicts EXCEPT !.As_use = s.A_prov], ra, 84)
                ELSE calculate_section_flexure_and_shear(s, ra.A_req, fck,
                                                         fy, phi)
                : ra \in {calculate_required_As(s.Mu, s.d, s.b, fck, fy,
                                                phi)} })
          : s \in {s0} })

(***************************************************************************)
(* rcDesigner_test.py: section_check                                       *)
(***************************************************************************)
\* rcDesigner_test.py 44-55: the dictionary returned; its first entry reads
\* sec["name"], sec being the module's variable (the loop variable of line
\* 67) and not a parameter: NameError while the module has not bound it.
\* a holds the eleven arguments, q the values computed from them; a phiVc
\* that is nan stays nan when rounded, and nan >= Vu is False
section_check_result(a0, q0, sec0) ==
    The({ IF sec = NoneVal THEN [kind |-> "NameError"]
          ELSE [kind |-> "dict",
                name |-> sec.name,
                Mu |-> a.Mu,
                phiMn |-> RRound(q.phiMn, 100),
                Vu |-> a.Vu,
                phiVc |-> IF q.phiVc = NaNVal THEN NaNVal
                          ELSE RRound(q.phiVc, 100),
                rho_use |-> q.rho_use,
                rho_ok |-> RLe(q.rho_min, q.rho_use)
                           /\ RLe(q.rho_use, q.rho_max),
                moment |-> Verdict(RLe(a.Mu, q.phiMn)),
                shear |-> Verdict(q.phiVc # NaNVal /\ RLe(a.Vu, q.phiVc)),
                spacing |-> Verdict(RLe(RDiv(R(1000), a.num_bars),
                                        RMin(RSub(RMul(R(375), q.Kcr_fs),
                                                  RMul(RQ(25, 10), q.Cc)),
                                             RMul(R(300), q.Kcr_fs))))]
          : a \in {a0}, q \in {q0}, sec \in {sec0} })

\* rcDesigner_test.py 22-40: the steel ratios, phi_f * Mn with phi_f = 0.85,
\* phi_v * Vc with phi_v = 0.80, fs = Mu * 1e6 / (As_used * (d - c/3))
\* (Kcr / fs raises ZeroDivisionError for Mu = 0), and Cc.  For fck < 0
\* np.sqrt(fck) is nan: max(1.4 / fy, nan) is its first argument, and phiVc
\* is nan
section_check_strengths(a0, a_blk0, c0, sec) ==
    The({ IF RSign(a.Mu) = 0 THEN ZeroDivisionErrorVal
          ELSE section_check_result(
                   a,
                   [rho_min |-> IF RSign(a.fck) < 0 THEN RDiv(RQ(14, 10), a.fy)
                                ELSE RMax(RDiv(RQ(14, 10), a.fy),
                                          RDiv(RMul(RQ(25, 100),
                                                    RSqrt(a.fck)),
                                               a.fy)),
                    rho_max |-> RMul(RMul(RMul(RQ(85, 100), RQ(714, 1000)),
                                          RDiv(a.fck, a.fy)),
                                     RDiv(R(600), RAdd(R(600), a.fy))),
                    rho_use |-> RDiv(a.As_used, RMul(a.b, a.d)),
                    phiMn |-> RMul(RQ(85, 100),
                                   RDiv(RMul(RMul(a.As_used, a.fy),
                                             RSub(a.d, RDiv(a_blk, R(2)))),
                                        R(1000000))),
                    phiVc |-> IF RSign(a.fck) < 0 THEN NaNVal
                              ELSE RDiv(RMul(RMul(RMul(RMul(RQ(80, 100),
                                                            RQ(1, 6)),
                                                       RSqrt(a.fck)),
                                                  a.b), a.d),
                                        R(1000)),
                    Kcr_fs |-> RDiv(R(210),
                                    RDiv(RMul(a.Mu, R(1000000)),
                                         RMul(a.As_used,
                                              RSub(a.d, RDiv(c, R(3)))))),
                    Cc |-> RSub(a.cover, RDiv(a.bar_diameter, R(2)))],
                   sec)
          : a \in {a0}, a_blk \in {a_blk0}, c \in {c0} })

\* rcDesigner_test.py 12-17: a, beta1, c = a / beta1, and epsilon_t =
\* 0.003 * (d - c) / c, which raises ZeroDivisionError for c = 0
section_check_block(a0, a_blk0, sec) ==
    The({ The({ IF RSign(c) = 0 THEN ZeroDivisionErrorVal
                ELSE section_check_strengths(a, a_blk, c, sec)
                : c \in {RDiv(a_blk,
                              IF RLe(a.fck, R(28)) THEN RQ(85, 100)
                              ELSE RMax(RSub(RQ(85, 100),
                                             RMul(RQ(5, 100),
                                                  RDiv(RSub(a.fck, R(28)),
                                                       R(7)))),
                                        RQ(65, 100)))} })
          : a \in {a0}, a_blk \in {a_blk0} })

\* rcDesigner_test.py 6-55: section_check(name, fck, fy, b, d, Mu, Vu,
\* As_used, cover, bar_diameter, num_bars) in a module whose variable sec
\* is sec (None: not bound)
section_check(a0, sec) ==
    The({ section_check_block(
              a,
              RDiv(RMul(a.As_used, a.fy),
                   RMul(RMul(RQ(85, 100), a.fck), a.b)),
              sec)
          : a \in {a0} })

\* rcDesigner_test.py 68-69: a call with the ten arguments after the name
\* leaves num_bars without a value, and Python raises TypeError before the
\* body runs
section_check_call(a, named, sec) ==
    IF named THEN section_check(a, sec) ELSE TypeErrorVal

(***************************************************************************)
(* rcT-beamDesigner(xlsx2pdf)_old.py: calculate_required_rebar.            *)
(***************************************************************************)
\* rcT-beamDesigner(xlsx2pdf)_old.py 34-37: As = (-b_coef - sqrt(disc)) /
\* (2 * a) and c = (As * phi_s * fy) / k for the k = alpha * phi_c * 0.85 *
\* fck * b of line 36; math.sqrt raises ValueError on a negative
\* discriminant
required_rebar_result(a0, b_coef0, disc0, fy, k0) ==
    The({ IF RSign(disc) < 0 THEN ValueErrorVal
          ELSE The({ [kind |-> "tuple", As |-> As,
                      c |-> RDiv(RMul(RMul(As, RQ(9, 10)), fy), k)]
                     : As \in {RDiv(RSub(RNeg(b_coef), RSqrt(disc)),
                                    RMul(R(2), a))} })
          : a \in {a0}, b_coef \in {b_coef0}, disc \in {disc0}, k \in {k0} })

\* rcT-beamDesigner(xlsx2pdf)_old.py 29-34: a = phi_s * fy, b_coef =
\* -(phi_s * fy * d), c_coef = Mu * 1e6 / (0.85 * alpha * phi_c * fck * b)
\* and discriminant = b_coef ** 2 - 4 * a * (-c_coef)
required_rebar_coefs(Mu, a0, b_coef0, fy, fck, b) ==
    The({ required_rebar_result(
              a, b_coef,
              RSub(float_pow(b_coef, R(2)),
                   RMul(RMul(R(4), a),
                        RNeg(RDiv(RMul(Mu, R(1000000)),
                                  RMul(RMul(RMul(RMul(RQ(85, 100), alpha),
                                                 phi_c), fck), b))))),
              fy,
              RMul(RMul(RMul(RMul(alpha, phi_c), RQ(85, 100)), fck), b))
          : a \in {a0}, b_coef \in {b_coef0},
            alpha \in {RQ(8, 10)}, phi_c \in {RQ(65, 100)} })

\* rcT-beamDesigner(xlsx2pdf)_old.py 28-37, with the defaults phi_s = 0.9,
\* phi_c = 0.65, alpha = 0.8
calculate_required_rebar(Mu, fy, d, fck, b) ==
    required_rebar_coefs(Mu, RMul(RQ(9, 10), fy),
                         RNeg(RMul(RMul(RQ(9, 10), fy), d)),
                         fy, fck, b)

(***************************************************************************)
(* The PDF report builders: SectionReportPDF and create_section_page.      *)
(***************************************************************************)
\* an attribute that was never assigned, and a string made of its parts
NoAttribute == [kind |-> "unset"]
StrVal(parts) == [kind |-> "str", parts |-> parts]

\* rcT-beamDesigner.py 52: the title of a report without a title attribute
DefaultTitle == StrVal(<<"section review report">>)

\* rcT-beamDesigner.py 72, rcT-beamDesigner(xlsx2pdf)_old.py 42: the title
\* of the page of a section, made of the section's name
section_title(section) == StrVal(<<"section review : ", section>>)

\* rcT-beamDesigner.py 47-54, rcT-beamDesigner(xlsx2pdf)_old.py 13-20:
\* header draws self.title if the attribute exists, else the default
header(self) ==
    IF self.title = NoAttribute THEN DefaultTitle ELSE self.title

\* FPDF.add_page as create_section_page relies on it: the new page starts
\* with what header() draws at the time of the call
add_page(self, section, first) ==
    [self EXCEPT !.pages = Append(@, [section |-> section, first |-> first,
                                      header |-> header(self)])]

\* rcT-beamDesigner.py 69-206: add_page(), then pdf.title = the section's
\* title, then the text of the section, which with auto page break runs
\* over to a further page or not
create_section_page(pdf0, section, overflows) ==
    The({ IF overflows THEN add_page(p, section, FALSE) ELSE p
          : p \in {[add_page(pdf0, section, TRUE)
                       EXCEPT !.title = section_title(section)]} })

\* create_section_page left by the exception e raised at a line: nothing
\* catches it, and it leaves the builder as well
PageRaised(pdf0, e, line) ==
    [pdf0 EXCEPT !.status = "aborted",
                 !.raised = [error |-> e, line |-> line]]

\* rcT-beamDesigner(xlsx2pdf)_old.py 40-76: add_page(), then pdf.title =
\* the row's title and the text of the dimensions; calculate_required_rebar
\* on the row's Mu, fy, d, fck and b, whose ValueError leaves
\* create_section_page at line 56; As_min, where max() on the complex
\* fck**0.5 of a negative fck raises TypeError (66); with auto page break
\* the text of a page that is completed runs over to a further page or not
xlsx2pdf_old_create_section_page(pdf0, row0, overflows) ==
    The({ The({ IF rr.kind # "tuple" THEN PageRaised(p, rr, 56)
                ELSE IF RSign(row.fck) < 0
                THEN PageRaised(p, TypeErrorVal, 66)
                ELSE IF overflows THEN add_page(p, row.section, FALSE)
                ELSE p
                : p \in {[add_page(pdf0, row.section, TRUE)
                             EXCEPT !.title = section_title(row.section)]},
                  rr \in {calculate_required_rebar(row.Mu, row.fy, row.d,
                                                   row.fck, row.b)} })
          : row \in {row0} })

(***************************************************************************)
(* The engine exercised on one section: geo is the section's geometry and  *)
(* materials, call the engine function last applied to it, arg the         *)
(* remaining arguments of that call and ret what it returned; last is the  *)
(* call, arg and ret of the call before it.  run is the run of a report    *)
(* generator over a sheet of sections: the generator, the sheet, the rows  *)
(* still pending, the sections reported so far, and what was raised.  pdf   *)
(* is the SectionReportPDF of a PDF report builder: the builder, its title *)
(* attribute, the sections still pending, the pages added so far, and what *)
(* was raised.                                                             *)
(***************************************************************************)
VARIABLES geo, call, arg, ret, last, run, pdf

vars == <<geo, call, arg, ret, last, run, pdf>>

MaxMuStep == 4
MaxAsStep == 4

\* b, d, fck, fy of the sections: the fixture of the documentation, a small
\* section and a beam web
Geometries ==
    { [b |-> R(1000), d |-> R(250), fck |-> R(40), fy |-> R(500)],
      [b |-> R(100),  d |-> R(50),  fck |-> R(20), fy |-> R(200)],
      [b |-> R(300),  d |-> R(450), fck |-> R(27), fy |-> R(400)] }

\* Mu (kN-m): a grid from -250 upwards, the fixture's 242.015, and the
\* moments at which a discriminant is exactly 0
MuValues ==
    {R(250 * k) : k \in -1..MaxMuStep}
    \cup {RQ(242015, 1000), RQ(138125, 100000), RQ(19125, 10000),
          RQ(95625, 100)}

PhiValues == {RQ(90, 100), RQ(85, 100)}

\* steel areas (mm2) handed in as As_use and as As_req
AsUseValues == {R(750 * k) : k \in 0..MaxAsStep} \cup {R(30), R(12000)}
AsReqValues == {R(2000 * k) : k \in 0..MaxAsStep}

\* neutral axis depths c (mm) handed to compute_tensile_strain and to the
\* crack width estimate, and the strains eps_s handed to the latter
CValues == {R(0), R(50), R(100), R(125)}

\* eps_cu as handed to compute_tensile_strain: the default 0.0033, which
\* as a float is 3804640965202595 / 2^60 and less than the decimal
EpsCuValues == {RQ(33, 10000)}
EpsValues == {RQ(72, 10000), RQ(132, 10000), RQ(1, 1000)}

\* shear forces Vu (kN) and the factors phi_c tried on shear_check
VuValues == {R(0), R(100), RQ(167204, 1000)}
PhiCValues == {RQ(65, 100), R(0), RQ(-65, 100)}

\* a dimension or strength as given, zero, or with the sign reversed
Degenerate(x) == {x, R(0), RNeg(x)}

\* ft (MPa) of a calc dictionary handed to create_section_page
CalcFtValues == {RQ(94, 10), RQ(26, 10), RQ(15, 10)}

Optional(S) == {NoneVal} \cup {Val(x) : x \in S}

NoArg == [kind |-> "none"]

\* the stirrup angles theta (degrees) handed to shear_spacing_check: every
\* whole number of degrees from 0 to 180, with the default of 90, the acute
\* and the obtuse inclinations, and the two ends of the range, 0 and 180,
\* where the cotangent is undefined
StirrupAngles == 0..180

\* the effective depths d (mm) handed to shear_spacing_check: the fixture's,
\* the depth at which 0.75 * d is 600, and a deeper section
SpacingDepths == {R(250), R(800), R(1000)}

\* rcDesigner_test.py 59-64: the sections of the module
TestSection(name, d, Mu, Vu, As_used, cover) ==
    [name |-> name, fck |-> R(27), fy |-> R(400), b |-> R(1000), d |-> d,
     Mu |-> Mu, Vu |-> Vu, As_used |-> As_used, cover |-> cover,
     bar_diameter |-> R(29), num_bars |-> R(10)]

TestSections ==
    { TestSection("left end", R(720), RQ(6328, 100), RQ(36940, 100),
                  RQ(57455, 10), R(80)),
      TestSection("midspan 1", R(740), RQ(103681, 100), R(0),
                  RQ(57455, 10), R(60)),
      TestSection("support 1", R(1020), RQ(182732, 100), RQ(52470, 100),
                  R(6424), R(80)) }

\* rcDesigner_test.py 67: the module's variable sec, not bound before the
\* loop and bound to a section by it
ModuleSec == {NoneVal} \cup TestSections

\* a row of the input sheet (rcDesigner.py: an entry of sections): the
\* fixture's section under the moment Mu and the shear force Vu; the
\* optional fields cover, A_prov, Av and s are None where the row has none
SectionRow(Mu, Vu) ==
    [b |-> R(1000), h |-> R(350), d |-> R(250), cover |-> Val(R(100)),
     fck |-> R(40), fy |-> R(500), Vu |-> Vu, Mu |-> Mu,
     A_prov |-> Val(RQ(30968, 10)), Av |-> NoneVal, s |-> NoneVal]

\* the fixture's row; rows without a solution for the steel area, with a
\* solution but too little strength, without loads, lightly loaded, and
\* with a negative moment; the fixture's row without its optional fields,
\* and with stirrups of its own; a shallow section, for which 0.75 * d is
\* less than the spacing of 125 mm; the fixture's row with a strength fck
\* of the wrong sign
SectionRows ==
    { SectionRow(RQ(242015, 1000), RQ(167204, 1000)),
      SectionRow(R(1000), R(100)),
      SectionRow(R(750), R(100)),
      SectionRow(R(0), R(0)),
      SectionRow(R(30), R(100)),
      SectionRow(R(-250), R(100)),
      [SectionRow(RQ(242015, 1000), RQ(167204, 1000))
           EXCEPT !.cover = NoneVal, !.A_prov = NoneVal],
      [SectionRow(RQ(242015, 1000), RQ(167204, 1000))
           EXCEPT !.Av = Val(R(200)), !.s = Val(R(200))],
      [SectionRow(R(30), R(100)) EXCEPT !.h = R(200), !.d = R(150)],
      [SectionRow(RQ(242015, 1000), RQ(167204, 1000))
           EXCEPT !.fck = R(-40)] }

\* the sheets handed to a docx report generator: two rows each
SectionSheets == {<<r1, r2>> : r1 \in SectionRows, r2 \in SectionRows}

\* rcDesigner.py 229-237: an entry of the main block's list of sections
MainSection(name, d, cover, Mu, Vu, A_prov) ==
    [section |-> name, b |-> R(1000), d |-> d, cover |-> Val(cover),
     Mu |-> Mu, Vu |-> Vu, A_prov |-> Val(A_prov), n_bars |-> 10]

\* rcDesigner.py 228-237: sections, the seven sections the main block
\* works on
MainSections ==
    << MainSection("left end", R(720), R(80), RQ(6328, 100),
                   RQ(36845, 100), RQ(57455, 10)),
       MainSection("midspan 1", R(740), R(60), RQ(104388, 100), R(0),
                   RQ(57455, 10)),
       MainSection("support 1", R(1020), R(80), RQ(182732, 100),
                   RQ(52470, 100), R(6424)),
       MainSection("midspan 2", R(740), R(60), RQ(120620, 100), R(0),
                   R(6424)),
       MainSection("support 2", R(1020), R(80), RQ(182382, 100),
                   RQ(52443, 100), R(6424)),
       MainSection("midspan 3", R(740), R(60), RQ(103681, 100), R(0),
                   RQ(57455, 10)),
       MainSection("right end", R(720), R(80), RQ(6328, 100),
                   RQ(36845, 100), RQ(57455, 10)) >>

\* no report generator has been started
IdleRun ==
    [driver |-> "none", status |-> "idle", sheet |-> <<>>,
     pending |-> <<>>, report |-> <<>>, raised |-> NoneVal]

\* rcT-beamDesigner.py 240-254: names of sections
SectionNames ==
    {"slab longitudinal positive", "slab longitudinal negative",
     "slab transverse positive"}

\* the lists of sections handed to a PDF report builder
MaxSections == 3
SectionLists ==
    UNION { [1..n -> SectionNames] : n \in 1..MaxSections }

\* rcT-beamDesigner(xlsx2pdf)_old.py 83-86: a row of the input sheet, with
\* the columns create_section_page computes on
Xlsx2pdfOldRow(name, b, d, fck, fy, Mu) ==
    [section |-> name, b |-> b, d |-> d, fck |-> fck, fy |-> fy, Mu |-> Mu]

\* the fixture's section under its moment of 242.015 kN-m and under a
\* negative moment, and a small section under a negative moment, for which
\* the discriminant of calculate_required_rebar is negative
Xlsx2pdfOldRows ==
    { Xlsx2pdfOldRow("slab longitudinal positive", R(1000), R(250), R(40),
                     R(500), RQ(242015, 1000)),
      Xlsx2pdfOldRow("slab longitudinal negative", R(1000), R(250), R(40),
                     R(500), R(-250)),
      Xlsx2pdfOldRow("slab transverse positive", R(100), R(50), R(20),
                     R(200), R(-250)) }

\* the sheets of rows handed to create_pdf_from_excel
Xlsx2pdfOldSheets ==
    UNION { [1..n -> Xlsx2pdfOldRows] : n \in 1..MaxSections }

\* what a new SectionReportPDF holds as title before the first assignment
\* of create_section_page: no such attribute, or the None of a base class
\* that declares it
InitialTitles == {NoAttribute, NoneVal}

\* no PDF report builder has been started
IdlePdf ==
    [builder |-> "none", status |-> "idle", title |-> NoAttribute,
     pending |-> <<>>, pages |-> <<>>, raised |-> NoneVal]

Init ==
    /\ pdf = IdlePdf
    /\ geo \in Geometries
    /\ call = "none"
    /\ arg = NoArg
    /\ ret = NoneVal
    /\ last = [call |-> "none", arg |-> NoArg, ret |-> NoneVal]
    /\ run = IdleRun

\* a call of the engine, outside the runs of the report generators
Returns(name, a, r) ==
    /\ run.status = "idle"
    /\ pdf.status = "idle"
    /\ call' = name
    /\ arg' = a
    /\ ret' = r
    /\ last' = [call |-> call, arg |-> arg, ret |-> ret]
    /\ UNCHANGED <<geo, run, pdf>>

GptilsRequiredRebarArea ==
    /\ call = "none"
    /\ \E Mu \in MuValues, phi \in PhiValues :
          Returns("gptils.required_rebar_area", [Mu |-> Mu, phi |-> phi],
                  gptils_required_rebar_area(Mu, geo.b, geo.d, geo.fck,
                                             geo.fy, phi))

Gptils2RequiredRebarArea ==
    /\ call = "none"
    /\ \E Mu \in MuValues, phi \in PhiValues :
          Returns("gptils_2.required_rebar_area", [Mu |-> Mu, phi |-> phi],
                  gptils_2_required_rebar_area(Mu, geo.b, geo.d, geo.fck,
                                               geo.fy, phi))

UtilsSolveRebarAreaForFlexure ==
    /\ call = "none"
    /\ \E Mu \in MuValues :
          Returns("utils.solve_rebar_area_for_flexure",
                  [Mu |-> Mu, phi_c |-> RQ(65, 100), phi_s |-> RQ(90, 100)],
                  utils_solve_rebar_area_for_flexure(
                      Mu, geo.b, geo.d, geo.fck, geo.fy,
                      RQ(65, 100), RQ(90, 100)))

SolveQuadratic ==
    /\ call = "none"
    /\ \E Mu \in MuValues, phi \in PhiValues :
          LET k == required_As_coefs(Mu, geo.d, geo.b, geo.fck, geo.fy, phi)
          IN  Returns("rcDesigner.solve_quadratic",
                      [Mu |-> Mu, phi |-> phi, a_coef |-> k.a_coef,
                       b_coef |-> k.b_coef, c_coef |-> k.c_coef],
                      solve_quadratic(k.a_coef, k.b_coef, k.c_coef))

CalculateRequiredAs ==
    /\ call = "none"
    /\ \E Mu \in MuValues, phi \in PhiValues :
          Returns("rcDesigner.calculate_required_As",
                  [Mu |-> Mu, phi |-> phi],
                  calculate_required_As(Mu, geo.d, geo.b, geo.fck, geo.fy,
                                        phi))

\* calculate_design_flexural_strength on a steel area given by the caller,
\* or on the As_req that required_rebar_area has just returned (with the
\* same phi)
GptilsDesignFlexuralStrength ==
    \/ /\ call = "none"
       /\ \E As \in AsUseValues :
             Returns("gptils.calculate_design_flexural_strength",
                     [As |-> As, phi |-> RQ(90, 100)],
                     gptils_calculate_design_flexural_strength(
                         As, geo.b, geo.d, R(0), geo.fck, geo.fy,
                         RQ(90, 100), RQ(4, 10)))
    \/ /\ call = "gptils.required_rebar_area"
       /\ IsFloat(ret)
       /\ Returns("gptils.calculate_design_flexural_strength",
                  [As |-> ret.v, phi |-> arg.phi],
                  gptils_calculate_design_flexural_strength(
                      ret.v, geo.b, geo.d, R(0), geo.fck, geo.fy,
                      arg.phi, RQ(4, 10)))

Gptils2DesignFlexuralStrength ==
    \/ /\ call = "none"
       /\ \E As \in AsUseValues :
             Returns("gptils_2.calculate_design_flexural_strength",
                     [As |-> As, phi |-> RQ(90, 100)],
                     gptils_2_calculate_design_flexural_strength(
                         As, geo.b, geo.d, R(0), geo.fck, geo.fy,
                         RQ(90, 100), RQ(4, 10)))
    \/ /\ call = "gptils_2.required_rebar_area"
       /\ IsFloat(ret)
       /\ Returns("gptils_2.calculate_design_flexural_strength",
                  [As |-> ret.v, phi |-> arg.phi],
                  gptils_2_calculate_design_flexural_strength(
                      ret.v, geo.b, geo.d, R(0), geo.fck, geo.fy,
                      arg.phi, RQ(4, 10)))

GptilsCalcMinMaxRebar ==
    /\ call = "none"
    /\ \E As_req \in Optional(AsReqValues), As_use \in Optional(AsUseValues) :
          Returns("gptils.calc_min_max_rebar",
                  [As_req |-> As_req, As_use |-> As_use],
                  gptils_calc_min_max_rebar(geo.b, geo.d, geo.fck, geo.fy,
                                            As_req, As_use))

Gptils2CalcMinMaxRebar ==
    /\ call = "none"
    /\ \E As_req \in Optional(AsReqValues), As_use \in Optional(AsUseValues) :
          Returns("gptils_2.calc_min_max_rebar",
                  [As_req |-> As_req, As_use |-> As_use],
                  gptils_2_calc_min_max_rebar(geo.b, geo.d, geo.fck, geo.fy,
                                              As_req, As_use))

UtilsCalcMinMaxRebar ==
    /\ call = "none"
    /\ \E As_req \in Optional(AsReqValues), As_use \in Optional(AsUseValues) :
          Returns("utils.calc_min_max_rebar",
                  [As_req |-> As_req, As_use |-> As_use],
                  utils_calc_min_max_rebar(geo.b, geo.d, geo.fck, geo.fy,
                                           As_req, As_use))

\* check_neutral_axis_depth may be applied again to the same section with
\* another As_use
GptilsCheckNeutralAxisDepth ==
    /\ call \in {"none", "gptils.check_neutral_axis_depth"}
    /\ \E As_use \in AsUseValues :
          Returns("gptils.check_neutral_axis_depth", [As_use |-> As_use],
                  gptils_check_neutral_axis_depth(
                      As_use, geo.b, geo.d, geo.fck, geo.fy,
                      RQ(65, 100), RQ(90, 100)))

Gptils2CheckNeutralAxisDepth ==
    /\ call \in {"none", "gptils_2.check_neutral_axis_depth"}
    /\ \E As_use \in AsUseValues :
          Returns("gptils_2.check_neutral_axis_depth", [As_use |-> As_use],
                  gptils_2_check_neutral_axis_depth(
                      As_use, geo.b, geo.d, geo.fck, geo.fy,
                      RQ(65, 100), RQ(90, 100)))

UtilsCheckNeutralAxisDepth ==
    /\ call \in {"none", "utils.check_neutral_axis_depth"}
    /\ \E As_use \in AsUseValues :
          Returns("utils.check_neutral_axis_depth", [As_use |-> As_use],
                  utils_check_neutral_axis_depth(
                      As_use, geo.b, geo.d, geo.fck, geo.fy,
                      RQ(65, 100), RQ(90, 100)))

\* compute_tensile_strain on the depth d of the section and on d = 1942,
\* with the depths c of CValues and the limit c = 0.4 * d of the neutral
\* axis check (the float 0.4 * 1942 is 776.8000000000001, and the strain
\* there rounds to 0.004949999999999999, one ulp below 1.5 * 0.0033)
GptilsComputeTensileStrain ==
    /\ call = "none"
    /\ \E d \in {geo.d, R(1942)}, eps_cu \in EpsCuValues :
          \E c \in CValues \cup {RMul(RQ(4, 10), d)} :
              Returns("gptils.compute_tensile_strain",
                      [d |-> d, c |-> c, eps_cu |-> eps_cu],
                      gptils_compute_tensile_strain(d, c, eps_cu))

Gptils2ComputeTensileStrain ==
    /\ call = "none"
    /\ \E d \in {geo.d, R(1942)}, eps_cu \in EpsCuValues :
          \E c \in CValues \cup {RMul(RQ(4, 10), d)} :
              Returns("gptils_2.compute_tensile_strain",
                      [d |-> d, c |-> c, eps_cu |-> eps_cu],
                      gptils_2_compute_tensile_strain(d, c, eps_cu))

UtilsComputeTensileStrain ==
    /\ call = "none"
    /\ \E d \in {geo.d, R(1942)}, eps_cu \in EpsCuValues :
          \E c \in CValues \cup {RMul(RQ(4, 10), d)} :
              Returns("utils.compute_tensile_strain",
                      [d |-> d, c |-> c, eps_cu |-> eps_cu],
                      utils_compute_tensile_strain(d, c, eps_cu))

\* shear_check, also on a width, depth or strength that is zero or negative
GptilsShearCheck ==
    /\ call = "none"
    /\ \E Vu \in VuValues, b \in Degenerate(geo.b), d \in Degenerate(geo.d),
          fck \in Degenerate(geo.fck), phi_c \in PhiCValues :
          Returns("gptils.shear_check",
                  [Vu |-> Vu, b |-> b, d |-> d, fck |-> fck,
                   phi_c |-> phi_c],
                  gptils_shear_check(Vu, b, d, fck, phi_c))

Gptils2ShearCheck ==
    /\ call = "none"
    /\ \E Vu \in VuValues, b \in Degenerate(geo.b), d \in Degenerate(geo.d),
          fck \in Degenerate(geo.fck), phi_c \in PhiCValues :
          Returns("gptils_2.shear_check",
                  [Vu |-> Vu, b |-> b, d |-> d, fck |-> fck,
                   phi_c |-> phi_c],
                  gptils_2_shear_check(Vu, b, d, fck, phi_c))

\* serviceability_check on a section 100 mm deeper than its effective
\* depth, also on a width, depth or strength that is zero or negative
GptilsServiceabilityCheck ==
    /\ call = "none"
    /\ \E Mu \in MuValues, b \in Degenerate(geo.b),
          h \in Degenerate(RAdd(geo.d, R(100))),
          fck \in Degenerate(geo.fck) :
          Returns("gptils.serviceability_check",
                  [Mu |-> Mu, b |-> b, h |-> h, fck |-> fck],
                  gptils_serviceability_check(Mu, b, h, fck))

Gptils2ServiceabilityCheck ==
    /\ call = "none"
    /\ \E Mu \in MuValues, b \in Degenerate(geo.b),
          h \in Degenerate(RAdd(geo.d, R(100))),
          fck \in Degenerate(geo.fck) :
          Returns("gptils_2.serviceability_check",
                  [Mu |-> Mu, b |-> b, h |-> h, fck |-> fck],
                  gptils_2_serviceability_check(Mu, b, h, fck))

Xlsx2pdfCrackCheck ==
    /\ call = "none"
    /\ \E Mu \in MuValues, b \in Degenerate(geo.b),
          h \in Degenerate(RAdd(geo.d, R(100))),
          fck \in Degenerate(geo.fck) :
          Returns("xlsx2pdf.crack_check",
                  [Mu |-> Mu, b |-> b, h |-> h, fck |-> fck],
                  xlsx2pdf_crack_check(Mu, b, h, fck))

\* the page of one section, whose calc dictionary holds ft or not
CreateSectionPageCrack1 ==
    /\ call = "none"
    /\ \E calc_ft \in Optional(CalcFtValues) :
          Returns("rcT-beamDesigner.create_section_page",
                  [fck |-> geo.fck, ft |-> calc_ft],
                  create_section_page_crack1(calc_ft))

CrackWidthCheck ==
    /\ call = "none"
    /\ \E c \in CValues, eps_s \in EpsValues :
          Returns("rcT-beamDesigner(gpt).crack_width_check",
                  [d |-> geo.d, c |-> c, eps_s |-> eps_s],
                  crack_width_check(geo.d, c, eps_s))

\* calc_shear_check, also on a strength that is zero or negative, and on
\* Vu = 28.2, for which the float sum Vc + (Vu - Vc) comes out one ulp
\* below Vu on the smallest section
UtilsCalcShearCheck ==
    /\ call = "none"
    /\ \E Vu \in VuValues \cup {RQ(282, 10)}, fck \in Degenerate(geo.fck) :
          Returns("utils.calc_shear_check",
                  [Vu |-> Vu, b |-> geo.b, d |-> geo.d, fck |-> fck],
                  utils_calc_shear_check(Vu, geo.b, geo.d, fck))

GptilsCalcShearCheck ==
    /\ call = "none"
    /\ \E Vu \in VuValues \cup {RQ(282, 10)}, fck \in Degenerate(geo.fck) :
          Returns("gptils.calc_shear_check",
                  [Vu |-> Vu, b |-> geo.b, d |-> geo.d, fck |-> fck],
                  gptils_calc_shear_check(Vu, geo.b, geo.d, fck))

Xlsx2pdfCalcShearCheck ==
    /\ call = "none"
    /\ \E Vu \in VuValues \cup {RQ(282, 10)}, fck \in Degenerate(geo.fck) :
          Returns("xlsx2pdf.calc_shear_check",
                  [Vu |-> Vu, b |-> geo.b, d |-> geo.d, fck |-> fck],
                  xlsx2pdf_calc_shear_check(Vu, geo.b, geo.d, fck))

GptilsShearSpacingCheck ==
    /\ call = "none"
    /\ \E d \in SpacingDepths, theta \in StirrupAngles :
          Returns("gptils.shear_spacing_check",
                  [d |-> d, theta |-> theta],
                  gptils_shear_spacing_check(d, theta))

Gptils2ShearSpacingCheck ==
    /\ call = "none"
    /\ \E d \in SpacingDepths, theta \in StirrupAngles :
          Returns("gptils_2.shear_spacing_check",
                  [d |-> d, theta |-> theta],
                  gptils_2_shear_spacing_check(d, theta))

\* rcDesigner_test.py: section_check is called on a section of the module,
\* with its name as the first argument or, as line 68 calls it, without
SectionCheck ==
    /\ call = "none"
    /\ \E t \in TestSections, sec \in ModuleSec, named \in BOOLEAN :
          Returns("rcDesigner_test.section_check",
                  [a |-> t, sec |-> sec, named |-> named],
                  section_check_call(t, named, sec))

\* rcT-beamDesigner(xlsx2pdf)_old.py 56: create_section_page hands the
\* section's Mu, fy, d, fck and b to calculate_required_rebar
Xlsx2pdfOldCalculateRequiredRebar ==
    /\ call = "none"
    /\ \E Mu \in MuValues :
          Returns("xlsx2pdf_old.calculate_required_rebar",
                  [Mu |-> Mu],
                  calculate_required_rebar(Mu, geo.fy, geo.d, geo.fck,
                                           geo.b))

\* rcDesigner.py 64-115: calculate_section_results on a section handed in by
\* a caller, with the fck of the main block or a negative one
CalculateSectionResults ==
    /\ call = "none"
    /\ \E section \in SectionRows, fck \in {R(27), R(-27)} :
          Returns("rcDesigner.calculate_section_results",
                  [section |-> section, fck |-> fck],
                  calculate_section_results(section, fck, R(400),
                                            RQ(85, 100)))

\* a report generator is run on one of sheets, instead of calls of the
\* engine
StartRun(driver, sheets) ==
    /\ call = "none"
    /\ run.status = "idle"
    /\ pdf.status = "idle"
    /\ \E sheet \in sheets :
          run' = [IdleRun EXCEPT !.driver = driver, !.status = "running",
                                 !.sheet = sheet, !.pending = sheet]
    /\ UNCHANGED <<geo, call, arg, ret, last, pdf>>

\* one turn of the loop over the rows, r being what the body made of the
\* first pending row: an exception leaves the loop and the generator
SectionDone(driver, r) ==
    /\ run.driver = driver
    /\ run.status = "running"
    /\ run.pending # <<>>
    /\ run' = The({ IF v.kind = "raised"
                    THEN [run EXCEPT !.status = "aborted", !.raised = v]
                    ELSE [run EXCEPT !.pending = Tail(run.pending),
                                     !.report = Append(run.report, v)]
                    : v \in {r} })
    /\ UNCHANGED <<geo, call, arg, ret, last, pdf>>

\* the loop is over: the report is written
SaveReport(driver) ==
    /\ run.driver = driver
    /\ run.status = "running"
    /\ run.pending = <<>>
    /\ run' = [run EXCEPT !.status = "saved"]
    /\ UNCHANGED <<geo, call, arg, ret, last, pdf>>

\* rcT-beamDesigner(gpt).py generate_rc_report
\* the variables of the loop body as the iteration before left them: a
\* Python loop does not clear them between two rows
Locals ==
    IF run.report = <<>> THEN NoVerdicts ELSE run.report[Len(run.report)]

GptStart ==
    /\ run.driver = "none"
    /\ StartRun("rcT-beamDesigner(gpt)", SectionSheets)

GptSection ==
    /\ run.pending # <<>>
    /\ SectionDone("rcT-beamDesigner(gpt)",
                   gpt_section(Head(run.pending), Locals))

GptSave ==
    /\ run.pending = <<>>
    /\ SaveReport("rcT-beamDesigner(gpt)")

\* rcT-beamDesigner(gpt)_2.py generate_rc_report
Gpt2Start ==
    /\ run.driver = "none"
    /\ StartRun("rcT-beamDesigner(gpt)_2", SectionSheets)

Gpt2Section ==
    /\ run.pending # <<>>
    /\ SectionDone("rcT-beamDesigner(gpt)_2",
                   gpt_2_section(Head(run.pending), Locals))

Gpt2Save ==
    /\ run.pending = <<>>
    /\ SaveReport("rcT-beamDesigner(gpt)_2")

\* rcDesigner.py, the main block: it works on its own list of sections,
\* with fck = 27, fy = 400, phi = 0.85 for every section
RcDesignerStart ==
    /\ run.driver = "none"
    /\ StartRun("rcDesigner", {MainSections})

RcDesignerSection ==
    /\ run.pending # <<>>
    /\ SectionDone("rcDesigner",
                   calculate_section_results(Head(run.pending), R(27),
                                             R(400), RQ(85, 100)))

RcDesignerSave ==
    /\ run.pending = <<>>
    /\ SaveReport("rcDesigner")

\* a PDF report builder is run on one of lists of sections: pdf =
\* SectionReportPDF()
StartPdf(builder, lists) ==
    /\ call = "none"
    /\ run.status = "idle"
    /\ pdf.status = "idle"
    /\ \E sections \in lists, title \in InitialTitles :
          pdf' = [IdlePdf EXCEPT !.builder = builder, !.status = "running",
                                 !.title = title, !.pending = sections]
    /\ UNCHANGED <<geo, call, arg, ret, last, run>>

\* one turn of the loop over the sections: create_section_page(pdf, sec)
SectionPage(builder) ==
    /\ pdf.builder = builder
    /\ pdf.status = "running"
    /\ pdf.pending # <<>>
    /\ \E overflows \in BOOLEAN :
          pdf' = [create_section_page(pdf, Head(pdf.pending), overflows)
                    EXCEPT !.pending = Tail(pdf.pending)]
    /\ UNCHANGED <<geo, call, arg, ret, last, run>>

\* the loop is over: pdf.output(...)
OutputPdf(builder) ==
    /\ pdf.builder = builder
    /\ pdf.status = "running"
    /\ pdf.pending = <<>>
    /\ pdf' = [pdf EXCEPT !.status = "saved"]
    /\ UNCHANGED <<geo, call, arg, ret, last, run>>

\* rcT-beamDesigner.py 209-235: create_multi_section_report
RcTBeamStart ==
    /\ pdf.builder = "none"
    /\ StartPdf("rcT-beamDesigner", SectionLists)

RcTBeamSectionPage ==
    /\ pdf.pending # <<>>
    /\ SectionPage("rcT-beamDesigner")

RcTBeamOutput ==
    /\ pdf.pending = <<>>
    /\ OutputPdf("rcT-beamDesigner")

\* rcT-beamDesigner(xlsx2pdf)_old.py 78-89: create_pdf_from_excel; an
\* exception raised by create_section_page ends the loop over the rows, and
\* pdf.output is not reached
Xlsx2pdfOldStart ==
    /\ pdf.builder = "none"
    /\ StartPdf("rcT-beamDesigner(xlsx2pdf)_old", Xlsx2pdfOldSheets)

Xlsx2pdfOldSectionPage ==
    /\ pdf.builder = "rcT-beamDesigner(xlsx2pdf)_old"
    /\ pdf.status = "running"
    /\ pdf.pending # <<>>
    /\ \E overflows \in BOOLEAN :
          pdf' = The({ IF p.status = "aborted" THEN p
                       ELSE [p EXCEPT !.pending = Tail(pdf.pending)]
                       : p \in {xlsx2pdf_old_create_section_page(
                                    pdf, Head(pdf.pending), overflows)} })
    /\ UNCHANGED <<geo, call, arg, ret, last, run>>

Xlsx2pdfOldOutput ==
    /\ pdf.pending = <<>>
    /\ OutputPdf("rcT-beamDesigner(xlsx2pdf)_old")

Next ==
    \/ Xlsx2pdfOldCalculateRequiredRebar
    \/ RcTBeamStart
    \/ RcTBeamSectionPage
    \/ RcTBeamOutput
    \/ Xlsx2pdfOldStart
    \/ Xlsx2pdfOldSectionPage
    \/ Xlsx2pdfOldOutput
    \/ GptilsRequiredRebarArea
    \/ Gptils2RequiredRebarArea
    \/ UtilsSolveRebarAreaForFlexure
    \/ SolveQuadratic
    \/ CalculateRequiredAs
    \/ GptilsDesignFlexuralStrength
    \/ Gptils2DesignFlexuralStrength
    \/ GptilsCalcMinMaxRebar
    \/ Gptils2CalcMinMaxRebar
    \/ UtilsCalcMinMaxRebar
    \/ GptilsCheckNeutralAxisDepth
    \/ Gptils2CheckNeutralAxisDepth
    \/ UtilsCheckNeutralAxisDepth
    \/ GptilsComputeTensileStrain
    \/ Gptils2ComputeTensileStrain
    \/ UtilsComputeTensileStrain
    \/ GptilsShearCheck
    \/ Gptils2ShearCheck
    \/ GptilsServiceabilityCheck
    \/ Gptils2ServiceabilityCheck
    \/ Xlsx2pdfCrackCheck
    \/ CreateSectionPageCrack1
    \/ CrackWidthCheck
    \/ GptStart
    \/ GptSection
    \/ GptSave
    \/ Gpt2Start
    \/ Gpt2Section
    \/ Gpt2Save
    \/ CalculateSectionResults
    \/ RcDesignerStart
    \/ RcDesignerSection
    \/ RcDesignerSave
    \/ GptilsShearSpacingCheck
    \/ Gptils2ShearSpacingCheck
    \/ SectionCheck
    \/ UtilsCalcShearCheck
    \/ GptilsCalcShearCheck
    \/ Xlsx2pdfCalcShearCheck

Spec == Init /\ [][Next]_vars


(***************************************************************************)
(* What the properties below speak of.                                     *)
(***************************************************************************)
SimplifiedSolverCalls ==
    {"gptils.required_rebar_area", "gptils_2.required_rebar_area"}

FactoredSolverCalls == {"utils.solve_rebar_area_for_flexure"}

QuadraticSolverCalls ==
    {"rcDesigner.solve_quadratic", "rcDesigner.calculate_required_As"}

DesignStrengthCalls ==
    {"gptils.calculate_design_flexural_strength",
     "gptils_2.calculate_design_flexural_strength"}

MinMaxCalls ==
    {"gptils.calc_min_max_rebar", "gptils_2.calc_min_max_rebar",
     "utils.calc_min_max_rebar"}

NeutralAxisCalls ==
    {"gptils.check_neutral_axis_depth", "gptils_2.check_neutral_axis_depth",
     "utils.check_neutral_axis_depth"}

\* the section and the moment of the documented example
Fixture == [b |-> R(1000), d |-> R(250), fck |-> R(40), fy |-> R(500)]
FixtureMu == RQ(242015, 1000)

RAbs(x) == The({ [a EXCEPT !.neg = FALSE] : a \in {x} })

\* |x - y| <= 1e-6 * |y|
Near(x, y) == RLe(RAbs(RSub(x, y)), RMul(RQ(1, 1000000), RAbs(y)))

\* the coefficients of the quadratic in As that the solver call of this
\* state has solved, as a*As^2 + b*As + c
SolvedCoefs ==
    IF call \in SimplifiedSolverCalls
    THEN The({ <<q.K, RNeg(q.B), q.C>>
               : q \in {simplified_quadratic(arg.Mu, geo.b, geo.d, geo.fck,
                                             geo.fy, arg.phi)} })
    ELSE IF call \in FactoredSolverCalls
    THEN The({ <<q.A, q.B, q.C>>
               : q \in {utils_quadratic(arg.Mu, geo.b, geo.d, geo.fck,
                                        geo.fy, arg.phi_c, arg.phi_s)} })
    ELSE The({ <<k.a_coef, k.b_coef, k.c_coef>>
               : k \in {required_As_coefs(arg.Mu, geo.d, geo.b, geo.fck,
                                          geo.fy, arg.phi)} })

\* b^2 - 4ac of coefficients k = <<a, b, c>>
DiscriminantOf(k) ==
    RSub(float_pow(k[2], R(2)), RMul(RMul(R(4), k[1]), k[3]))

\* the smaller of the roots (-b +- sqrt(b^2 - 4ac)) / 2a, for b^2 - 4ac >= 0
SmallerRootOf(k) ==
    The({ RMin(RDiv(RAdd(RNeg(k[2]), root), RMul(R(2), k[1])),
               RDiv(RSub(RNeg(k[2]), root), RMul(R(2), k[1])))
          : root \in {RSqrt(DiscriminantOf(k))} })

Discriminant == DiscriminantOf(SolvedCoefs)
SmallerRoot == SmallerRootOf(SolvedCoefs)

\* utils.py 82-92: the candidates 0.25*sqrt(fck)/fy*b*d, 1.4/fy*b*d and
\* As_min_c, which is (4/3)*As_req when As_req is known and 0.0 otherwise
KnownCandidates(As_req) ==
    min_rebar_candidates(geo.b, geo.d, geo.fck, geo.fy,
                         IF As_req # NoneVal
                         THEN RMul(RDiv(R(4), R(3)), As_req.v) ELSE R(0))

\* the greatest of the candidates <= As_use, 0 when there is none
GreatestWithin(candidates, As_use) ==
    The({ IF left = <<>> THEN R(0) ELSE PyMax(left)
          : left \in {SelectSeq(candidates, LAMBDA x : RLe(x, As_use))} })

(***************************************************************************)
(* Required steel area.                                                    *)
(***************************************************************************)
\* C1: when required_rebar_area returns As_req, feeding that As_req back
\* into calculate_design_flexural_strength (same phi) gives a nominal
\* strength Mn equal to Mu / phi, i.e. a design strength phi*Mn equal to Mu,
\* within a relative tolerance of 1e-6.
C1_RoundTrip ==
    (call \in DesignStrengthCalls /\ last.call \in SimplifiedSolverCalls)
    => /\ Near(ret.Mn, RDiv(last.arg.Mu, last.arg.phi))
       /\ Near(ret.phi_Mn, last.arg.Mu)

\* C2: in gptils, gptils_2 and utils, for a demand Mu > 0 whose
\* discriminant is >= 0 (exactly 0 included) the solver returns an
\* As_req > 0 and not NoSolution.
C2_SolvesWhenDiscriminantNonNegative ==
    (/\ call \in SimplifiedSolverCalls \cup FactoredSolverCalls
     /\ RLt(R(0), arg.Mu)
     /\ RLe(R(0), Discriminant))
    => (IsFloat(ret) /\ RLt(R(0), ret.v))

\* C3: in gptils, gptils_2, utils and rcDesigner.solve_quadratic, a
\* discriminant < 0 gives NoSolution: None is returned or ValueError is
\* raised, never a number.
C3_NoSolutionWhenDiscriminantNegative ==
    (/\ call \in SimplifiedSolverCalls \cup FactoredSolverCalls
                 \cup {"rcDesigner.solve_quadratic"}
     /\ RLt(Discriminant, R(0)))
    => NoSolution(ret)

\* a solver has met the discriminant < 0 of the fixture under Mu = 1000 and
\* answered None or ValueError
C3_Witness ==
    /\ call \in SimplifiedSolverCalls \cup FactoredSolverCalls
                \cup {"rcDesigner.solve_quadratic"}
    /\ geo = Fixture
    /\ arg.Mu = R(1000)
    /\ RLt(Discriminant, R(0))
    /\ NoSolution(ret)

\* C4: in gptils, gptils_2 and utils, when the quadratic has two real
\* roots, both positive, the value returned as As_req is the smaller one.
C4_ReturnsSmallerRoot ==
    (/\ call \in SimplifiedSolverCalls \cup FactoredSolverCalls
     /\ RLt(R(0), Discriminant)
     /\ RLt(R(0), SmallerRoot))
    => (IsFloat(ret) /\ REq(ret.v, SmallerRoot))

\* C5: in every solver, rcDesigner.solve_quadratic and
\* calculate_required_As included, a smaller root <= 0 gives NoSolution; the
\* larger root is never returned in its place.
C5_NoSolutionWhenSmallerRootNotPositive ==
    (/\ call \in SimplifiedSolverCalls \cup FactoredSolverCalls
                 \cup QuadraticSolverCalls
     /\ RLe(R(0), Discriminant)
     /\ RLe(SmallerRoot, R(0)))
    => NoSolution(ret)

\* C6: for b = 1000, d = 250, fck = 40, fy = 500, Mu = 242.015, phi = 0.9
\* the solver returns an As_req between 2382 and 2420 mm2, in the simplified
\* and in the factored formulation.
C6_FixtureRange ==
    (/\ call \in SimplifiedSolverCalls \cup FactoredSolverCalls
     /\ geo = Fixture
     /\ arg.Mu = FixtureMu
     /\ call \in SimplifiedSolverCalls => arg.phi = RQ(90, 100))
    => (IsFloat(ret) /\ RLe(R(2382), ret.v) /\ RLe(ret.v, R(2420)))

(***************************************************************************)
(* Minimum and maximum steel.                                              *)
(***************************************************************************)
\* C7 as stated: for b = 1000, d = 250, fck = 40, fy = 500,
\* calc_min_max_rebar returns As_min <= As_max for every As_req and every
\* As_use.
C7_FixtureMinBelowMax ==
    (call \in MinMaxCalls /\ geo = Fixture)
    => RLe(ret.As_min, ret.As_max)

\* C7, amended: for b = 1000, d = 250, fck = 40, fy = 500,
\* calc_min_max_rebar returns As_min <= As_max for every As_use whenever
\* As_req is absent or As_req <= 7500 (= 0.03*b*d, so that (4/3)*As_req <=
\* As_max = 10000).
C7_FixtureMinBelowMaxUpTo7500 ==
    (/\ call \in MinMaxCalls
     /\ geo = Fixture
     /\ (arg.As_req = NoneVal \/ RLe(arg.As_req.v, R(7500))))
    => RLe(ret.As_min, ret.As_max)

\* the fixture with As_req = 6000 and no As_use: As_min = 8000 <= 10000
C7_Witness ==
    /\ call \in MinMaxCalls
    /\ geo = Fixture
    /\ arg.As_req = Val(R(6000))
    /\ arg.As_use = NoneVal
    /\ REq(ret.As_min, R(8000))
    /\ REq(ret.As_max, R(10000))

\* C8: in all three calc_min_max_rebar, when As_use is supplied As_min is
\* the greatest of the candidates (0.25*sqrt(fck)/fy*b*d, 1.4/fy*b*d and,
\* if As_req is known, (4/3)*As_req) that are <= As_use, and 0 when none
\* is, as with As_use = 0; As_max = 0.04*b*d.
C8_FilterByAsUse ==
    (call \in MinMaxCalls /\ arg.As_use # NoneVal)
    => /\ REq(ret.As_min,
              GreatestWithin(KnownCandidates(arg.As_req), arg.As_use.v))
       /\ REq(ret.As_max, RMul(RMul(RQ(4, 100), geo.b), geo.d))

\* C9: in all three calc_min_max_rebar, a supplied As_use > 0 gives
\* As_min <= As_use, and As_min = 0 when every candidate exceeds As_use.
C9_MinWithinAsUse ==
    (/\ call \in MinMaxCalls
     /\ arg.As_use # NoneVal
     /\ RLt(R(0), arg.As_use.v))
    => /\ RLe(ret.As_min, arg.As_use.v)
       /\ REq(GreatestWithin(KnownCandidates(arg.As_req), arg.As_use.v), R(0))
          => REq(ret.As_min, R(0))

\* As_use = 30 is below each of the three candidates of the fixture with
\* As_req = 2000, and As_min is 0
C9_Witness ==
    /\ call \in MinMaxCalls
    /\ geo = Fixture
    /\ arg.As_req = Val(R(2000))
    /\ arg.As_use = Val(R(30))
    /\ \A i \in 1..3 : RLt(R(30), KnownCandidates(arg.As_req)[i])
    /\ REq(ret.As_min, R(0))

(***************************************************************************)
(* Neutral-axis depth.                                                     *)
(***************************************************************************)
\* C10: with b, d, fck, fy, phi_c, phi_s fixed, check_neutral_axis_depth is
\* monotone in As_use: of two calls on the same section the one with the
\* larger As_use returns a c at least as large, both return the same
\* cmax = 0.4*d, and if the check fails (c_ok false) for the smaller As_use
\* it fails for the larger.
C10_MonotoneInAsUse ==
    (/\ call \in NeutralAxisCalls
     /\ last.call = call
     /\ RLe(last.arg.As_use, arg.As_use))
    => /\ RLe(last.ret.c, ret.c)
       /\ REq(ret.cmax, last.ret.cmax)
       /\ REq(ret.cmax, RMul(RQ(4, 10), geo.d))
       /\ ~last.ret.c_ok => ~ret.c_ok

\* two calls in a row, the second with more steel, both failing the check
C10_Witness ==
    /\ call \in NeutralAxisCalls
    /\ last.call = call
    /\ RLt(last.arg.As_use, arg.As_use)
    /\ RLt(last.ret.c, ret.c)
    /\ ~last.ret.c_ok
    /\ ~ret.c_ok

(***************************************************************************)
(* C11.  compute_tensile_strain with c = 0.                                *)
(***************************************************************************)
TensileStrainCalls ==
    {"gptils.compute_tensile_strain", "gptils_2.compute_tensile_strain",
     "utils.compute_tensile_strain"}

\* the outcomes the engine has: numbers and tuples of numbers and flags,
\* None and ValueError (which stand for NoSolution), and the exceptions
\* raised by the arithmetic itself
OrdinaryOrArithmeticKinds ==
    {"float", "tuple", "None", "ValueError", "ZeroDivisionError",
     "TypeError"}

\* C11: compute_tensile_strain called with c = 0 ends in an outcome of a
\* kind of its own (DivisionUndefined), which the caller can tell from a
\* strain, from NoSolution and from an exception of the arithmetic
C11_DivisionUndefinedWhenCZero ==
    call \in TensileStrainCalls /\ RSign(arg.c) = 0 =>
        ret.kind \notin OrdinaryOrArithmeticKinds

(***************************************************************************)
(* C12.  The pair returned by calculate_design_flexural_strength.          *)
(***************************************************************************)
\* As*fy*(d - beta*c) in kN-m, with c = a / beta and a = As*fy/(0.85*fck*b),
\* for the steel area of this state's call and beta = 0.4
NominalMomentKNm ==
    The({ RDiv(RMul(RMul(arg.As, geo.fy),
                    RSub(geo.d, RMul(RQ(4, 10), RDiv(a, RQ(4, 10))))),
               R(1000000))
          : a \in {RDiv(RMul(arg.As, geo.fy),
                        RMul(RMul(RQ(85, 100), geo.fck), geo.b))} })

\* C12: calculate_design_flexural_strength, of gptils and of gptils_2,
\* returns (Mn, phiMn) with Mn the nominal moment As*fy*(d - beta*c) in kN-m
\* and phiMn = phi * Mn for the Mn it returns
C12_ReturnsMnInKiloNewtonMetres ==
    call \in DesignStrengthCalls =>
        /\ Near(ret.Mn, NominalMomentKNm)
        /\ Near(ret.phi_Mn, RMul(arg.phi, ret.Mn))

(***************************************************************************)
(* C14.  shear_check without a shear force.                                *)
(***************************************************************************)
ShearCalls == {"gptils.shear_check", "gptils_2.shear_check"}

\* C14, as stated: shear_check called with Vu = 0 returns pass = True for
\* every b, d, fck and phi_c, without raising
C14_PassWhenVuZero ==
    call \in ShearCalls /\ RSign(arg.Vu) = 0 =>
        ret.kind = "tuple" /\ ret.pass

\* C14, amended: shear_check called with Vu = 0 returns pass = True, without
\* raising, for every positive b, d, fck and phi_c
C14_PassWhenVuZeroAndInputsPositive ==
    /\ call \in ShearCalls
    /\ RSign(arg.Vu) = 0
    /\ RSign(arg.b) > 0
    /\ RSign(arg.d) > 0
    /\ RSign(arg.fck) > 0
    /\ RSign(arg.phi_c) > 0
    => ret.kind = "tuple" /\ ret.pass

\* shear_check has passed the fixture's section without a shear force, with
\* the positive capacity 152131 N
C14_Witness ==
    /\ call \in ShearCalls
    /\ RSign(arg.Vu) = 0
    /\ arg.b = R(1000) /\ arg.d = R(250) /\ arg.fck = R(40)
    /\ arg.phi_c = RQ(65, 100)
    /\ ret.kind = "tuple"
    /\ ret.pass
    /\ RLt(R(152131), ret.Vcd) /\ RLt(ret.Vcd, R(152132))

(***************************************************************************)
(* C15.  The verdict on the edge stress of the uncracked section.          *)
(***************************************************************************)
EdgeStressCalls ==
    {"gptils.serviceability_check", "gptils_2.serviceability_check",
     "xlsx2pdf.crack_check"}

\* the cracking strength 0.23 * fck^(2/3) of the concrete of this state's
\* call
CrackingStrength == RMul(RQ(23, 100), RCbrt2(arg.fck))

\* C15: the verdict on the uncracked edge stress is pass exactly when
\* ft <= fct, with ft = Mu*1e6/(b*h^2/6) and fct = 0.23*fck^(2/3): the one
\* returned by serviceability_check and the one printed by every report
\* generator showing that stress
C15_EdgeStressVerdict ==
    /\ call \in EdgeStressCalls /\ ret.kind = "tuple" =>
          /\ ret.ft = RDiv(RMul(arg.Mu, R(1000000)),
                           RDiv(RMul(arg.b, float_pow(arg.h, R(2))), R(6)))
          /\ ret.fct = CrackingStrength
          /\ ret.pass <=> RLe(ret.ft, ret.fct)
    /\ call = "rcT-beamDesigner.create_section_page" /\ arg.ft # NoneVal =>
          (ret.pass <=> RLe(arg.ft.v, CrackingStrength))

(***************************************************************************)
(* C16.  The crack width estimate.                                         *)
(***************************************************************************)
\* C16: the crack width is w = (d - c) * eps_s * 0.6 and passes exactly when
\* w <= 0.3; d = 250, c = 50, eps_s = 0.0072 give w = 0.864, which fails
C16_CrackWidth ==
    call = "rcT-beamDesigner(gpt).crack_width_check" =>
        /\ ret.w = RMul(RMul(RSub(arg.d, arg.c), arg.eps_s), RQ(6, 10))
        /\ ret.pass <=> RLe(ret.w, RQ(3, 10))
        /\ arg.d = R(250) /\ arg.c = R(50) /\ arg.eps_s = RQ(72, 10000) =>
              REq(ret.w, RQ(864, 1000)) /\ ~ret.pass

\* the estimate has been made for d = 250, c = 50, eps_s = 0.0072
C16_Witness ==
    /\ call = "rcT-beamDesigner(gpt).crack_width_check"
    /\ arg.d = R(250) /\ arg.c = R(50) /\ arg.eps_s = RQ(72, 10000)
    /\ REq(ret.w, RQ(864, 1000))
    /\ ~ret.pass

(***************************************************************************)
(* C20.  Non-positive dimensions and strengths.                            *)
(***************************************************************************)
ServiceabilityCalls ==
    {"gptils.serviceability_check", "gptils_2.serviceability_check"}

\* C20: on a non-positive b, d, h or fck, shear_check and
\* serviceability_check return neither numbers nor a pass flag, and end
\* neither as NoSolution nor in an exception of the arithmetic: they signal
\* an error of a kind of its own (InvalidGeometry)
C20_InvalidGeometrySignalled ==
    /\ call \in ShearCalls
       /\ (RSign(arg.b) <= 0 \/ RSign(arg.d) <= 0 \/ RSign(arg.fck) <= 0)
       => ret.kind \notin OrdinaryOrArithmeticKinds
    /\ call \in ServiceabilityCalls
       /\ (RSign(arg.b) <= 0 \/ RSign(arg.h) <= 0 \/ RSign(arg.fck) <= 0)
       => ret.kind \notin OrdinaryOrArithmeticKinds

(***************************************************************************)
(* C13.  The flexural verdict of the report generators.                    *)
(***************************************************************************)
DocxDrivers == {"rcT-beamDesigner(gpt)", "rcT-beamDesigner(gpt)_2"}

\* C13: the flexural verdict printed for a section is O.K exactly when
\* phiMn >= Mu, whatever the sign of Mu: the generators' test ratio >= 1.0
\* gives the verdict of phiMn >= Mu in every case
C13_FlexuralVerdict ==
    run.driver \in DocxDrivers =>
        \A i \in DOMAIN run.report :
            (run.report[i].flexural = "O.K")
                <=> RLe(run.sheet[i].Mu, run.report[i].phi_Mn.v)

(***************************************************************************)
(* C17.  A section without a solution and the rest of the run.             *)
(***************************************************************************)
\* C17: a section whose required steel area has no solution never aborts
\* the run of a report generator: the loop goes on to the later sections
\* and the report is written
C17_NoSolutionNeverAborts ==
    ~(run.status = "aborted" /\ NoSolution(run.raised.error))

(***************************************************************************)
(* C18.  Capacity below demand.                                            *)
(***************************************************************************)
\* C18: a section with phiMn < Mu or Vcd < Vu * 1000 gets a failing verdict
\* and raises nothing, neither in shear_check nor in the lines of
\* generate_rc_report that write out the section
C18_CapacityBelowDemandNeverRaises ==
    /\ call \in ShearCalls /\ ret.kind = "tuple"
       /\ RLt(ret.Vcd, RMul(arg.Vu, R(1000)))
       => ~ret.pass
    /\ run.driver \in DocxDrivers =>
          /\ \A i \in DOMAIN run.report :
                RLt(run.report[i].phi_Mn.v, run.sheet[i].Mu)
                    => run.report[i].flexural = "N.G"
          /\ ~(/\ run.status = "aborted"
               /\ run.raised.phi_Mn # NoneVal
               /\ RLt(run.raised.phi_Mn.v, Head(run.pending).Mu))

(***************************************************************************)
(* C19.  No steel area of 0 in place of a missing solution.                *)
(***************************************************************************)
\* C19: for a section on which required_rebar_area found no solution,
\* rcT-beamDesigner(gpt)_2.py's generate_rc_report puts no 0 in the place of
\* the steel area, gives no verdict computed from a steel area, strain or
\* crack width of 0, and does not report the crack width as O.K
C19_NoZeroSteelAfterNoSolution ==
    run.driver = "rcT-beamDesigner(gpt)_2" =>
        \A i \in DOMAIN run.report :
            run.report[i].As_req = NoneVal =>
                /\ run.report[i].As_use # Val(R(0))
                /\ run.report[i].w # Val(R(0))
                /\ run.report[i].crack_width # "O.K"


(***************************************************************************)
(* Optional fields of a row                                                *)
(***************************************************************************)
\* C21: a missing optional field is never replaced by a number: for a
\* section without A_prov, calculate_section_results reports a_prov,
\* phi.Mn, the safety factor and the provided/required ratio as None and
\* still gives A_req and the shear verdict; rcT-beamDesigner(gpt)_2.py's
\* generate_rc_report works with no number for a cover, an Av or an s that
\* the row does not hold
C21_MissingOptionalNotDefaulted ==
    /\ (/\ call = "rcDesigner.calculate_section_results"
        /\ arg.section.A_prov = NoneVal
        /\ ret.kind = "section") =>
           /\ ret.a_prov = NoneVal
           /\ ret.phi_Mn = NoneVal
           /\ ret.ratio = NoneVal
           /\ ret.prov_ratio = NoneVal
           /\ IsFloat(ret.As_req)
           /\ ret.shear \in {"O.K", "NG"}
    /\ \A i \in DOMAIN run.report :
           run.driver = "rcT-beamDesigner(gpt)_2" =>
               /\ run.sheet[i].cover = NoneVal =>
                      run.report[i].cover = NoneVal
               /\ run.sheet[i].Av = NoneVal =>
                      run.report[i].Av_use = NoneVal
               /\ run.sheet[i].s = NoneVal => run.report[i].s = NoneVal


(***************************************************************************)
(* The stages of one iteration                                             *)
(***************************************************************************)
\* the computations of the flexural, the shear and the serviceability stage
FlexuralComputations ==
    {"required_rebar_area", "calc_min_max_rebar", "check_neutral_axis_depth",
     "compute_tensile_strain", "calculate_design_flexural_strength"}
ShearComputations ==
    {"shear_check", "min_shear_rebar", "shear_spacing_check",
     "additional_tension"}
ServiceabilityComputations ==
    {"serviceability_check", "stress_check", "indirect_crack_check",
     "crack_width_check"}

\* the iterations a docx generator has gone through: the sections reported
\* and the one that raised
Iterations ==
    {run.report[i] : i \in DOMAIN run.report}
    \cup (IF run.raised = NoneVal THEN {} ELSE {run.raised})

\* what the serviceability stage works on: the steel area, the neutral axis
\* and the strain that the same iteration computed for the same row
ServiceabilityReadsOwnIteration ==
    \A i \in DOMAIN run.report :
        /\ run.report[i].crack_rebar =
               Verdict(RLe(RMul(RMul(RQ(2, 1000), run.sheet[i].b),
                                run.sheet[i].h),
                           run.report[i].As_use.v))
        /\ REq(run.report[i].w.v,
               RMul(RMul(RSub(run.sheet[i].d, run.report[i].c.v),
                         run.report[i].eps_s.v),
                    RQ(6, 10)))

\* C22 as stated: in each iteration of generate_rc_report every flexural
\* computation is made before any shear computation, every shear
\* computation before any serviceability computation, and the
\* serviceability stage works on the steel area, the neutral axis and the
\* strain that the same iteration computed for the same row
C22_StagesInOrder ==
    run.driver \in DocxDrivers =>
        /\ \A r \in Iterations : \A i, j \in DOMAIN r.trace :
               /\ (/\ r.trace[i].fn \in FlexuralComputations
                   /\ r.trace[j].fn \in ShearComputations) => i < j
               /\ (/\ r.trace[i].fn \in ShearComputations
                   /\ r.trace[j].fn \in ServiceabilityComputations) => i < j
        /\ ServiceabilityReadsOwnIteration

\* rcT-beamDesigner(gpt)_2.py 128: the strain computed a second time, for
\* the crack width
SecondStrain == At("compute_tensile_strain", 128)

\* C22, amended: in each iteration of generate_rc_report every flexural
\* computation is made before any shear computation, but for the strain
\* that rcT-beamDesigner(gpt)_2.py computes a second time at line 128, in
\* the serviceability stage: it comes after every shear computation and
\* after serviceability_check, the strain having been computed at line 82
\* before them, and it gives the strain of line 82 again (the crack width
\* is the one of that strain); every shear computation is made before any
\* serviceability computation; and the serviceability stage works on the
\* steel area, the neutral axis and the strain that the same iteration
\* computed for the same row
C22_StagesInOrderButSecondStrain ==
    run.driver \in DocxDrivers =>
        /\ \A r \in Iterations : \A i, j \in DOMAIN r.trace :
               /\ (/\ r.trace[i].fn \in FlexuralComputations
                   /\ r.trace[j].fn \in ShearComputations) =>
                      IF r.trace[i] = SecondStrain
                      THEN /\ run.driver = "rcT-beamDesigner(gpt)_2"
                           /\ j < i
                           /\ \E k \in 1..(j - 1) :
                                  r.trace[k] = At("compute_tensile_strain",
                                                  82)
                           /\ \E k \in 1..(i - 1) :
                                  r.trace[k].fn = "serviceability_check"
                      ELSE i < j
               /\ (/\ r.trace[i].fn \in ShearComputations
                   /\ r.trace[j].fn \in ServiceabilityComputations) => i < j
        /\ ServiceabilityReadsOwnIteration

\* rcT-beamDesigner(gpt)_2.py has reported a section after all thirteen
\* computations, the strain computed a second time for the crack width, and
\* a section without steel after the ten that are not guarded
C22_Witness ==
    /\ run.driver = "rcT-beamDesigner(gpt)_2"
    /\ Len(run.report) = 2
    /\ Len(run.report[1].trace) = 13
    /\ run.report[1].trace[12] = SecondStrain
    /\ run.report[1].trace[6].fn = "shear_check"
    /\ Len(run.report[2].trace) = 10


(***************************************************************************)
(* Sections are independent of each other                                  *)
(***************************************************************************)
\* C23: the result for a section depends on its record and on the material
\* parameters passed, and on nothing else: every section a generator has
\* reported reads as it would had its row been processed alone, and what
\* section_check returns is the same whatever the module's variable sec
\* holds
C23_SectionsIndependent ==
    /\ \A i \in DOMAIN run.report :
           /\ run.driver = "rcT-beamDesigner(gpt)" =>
                  run.report[i] = gpt_section(run.sheet[i], NoVerdicts)
           /\ run.driver = "rcT-beamDesigner(gpt)_2" =>
                  run.report[i] = gpt_2_section(run.sheet[i], NoVerdicts)
           /\ run.driver = "rcDesigner" =>
                  run.report[i] =
                      calculate_section_results(run.sheet[i], R(27), R(400),
                                                RQ(85, 100))
    /\ (call = "rcDesigner_test.section_check" /\ ret.kind = "dict") =>
           \A sec \in ModuleSec : section_check(arg.a, sec) = ret


(***************************************************************************)
(* Stirrup spacing                                                         *)
(***************************************************************************)
SpacingCalls == {"gptils.shear_spacing_check", "gptils_2.shear_spacing_check"}

\* C25 as stated: shear_spacing_check returns an Smax of at most 600 mm for
\* every d > 0 and every stirrup angle, and for 90 degrees exactly
\* min(0.75 * d, 600); the generators report the spacing as O.K exactly when
\* the spacing s they report as actual is at most Smax
C25_SmaxForEveryAngle ==
    /\ call \in SpacingCalls =>
           /\ IsFloat(ret)
           /\ RLe(ret.v, R(600))
           /\ arg.theta = 90 =>
                  REq(ret.v, RMin(RMul(RQ(75, 100), arg.d), R(600)))
    /\ run.driver \in DocxDrivers =>
           \A i \in DOMAIN run.report :
               run.report[i].spacing = "O.K" <=>
                   RLe(run.report[i].s.v, run.report[i].Smax.v)

\* C25, amended: for d > 0 and every stirrup angle whose tangent
\* math.tan(math.radians(theta)) is not 0.0 (it is 0.0 for 0 degrees, where
\* 1 / tan raises ZeroDivisionError) shear_spacing_check returns an Smax of
\* at most 600 mm (negative for obtuse angles beyond 135 degrees), and for 90
\* degrees exactly min(0.75 * d, 600); the generators report the spacing as
\* O.K exactly when the spacing s they report as actual is at most Smax
C25_SmaxAtMost600 ==
    /\ call \in SpacingCalls =>
           IF RSign(tan_radians(arg.theta)) = 0
           THEN ret = ZeroDivisionErrorVal
           ELSE /\ IsFloat(ret)
                /\ RLe(ret.v, R(600))
                /\ arg.theta = 90 =>
                       REq(ret.v, RMin(RMul(RQ(75, 100), arg.d), R(600)))
    /\ run.driver \in DocxDrivers =>
           \A i \in DOMAIN run.report :
               run.report[i].spacing = "O.K" <=>
                   RLe(run.report[i].s.v, run.report[i].Smax.v)

\* shear_spacing_check has capped 0.75 * 1000 = 750 mm at 600 mm for
\* vertical stirrups
C25_Witness ==
    /\ call \in SpacingCalls
    /\ arg.theta = 90
    /\ arg.d = R(1000)
    /\ REq(ret.v, R(600))


(***************************************************************************)
(* The simplified shear model                                              *)
(***************************************************************************)
CalcShearCalls ==
    {"utils.calc_shear_check", "gptils.calc_shear_check",
     "xlsx2pdf.calc_shear_check"}

\* what calc_shear_check returns to a call with a strength fck >= 0: Vs is
\* 0 when Vu <= Vc and Vu - Vc otherwise, Vc being
\* 0.53 * sqrt(fck) * b * d * 1e-3, so that Vs >= 0 and Vc + Vs >= Vu, the
\* float sum Vc + Vs falling short of Vu by no more than the rounding of
\* the subtraction and the addition (one part in 10^9 of Vu at the most)
CalcShearValues ==
    /\ ret.kind = "tuple"
    /\ REq(ret.Vc,
           RMul(RMul(RMul(RMul(RQ(53, 100), float_pow(arg.fck, RQ(1, 2))),
                          arg.b), arg.d),
                RQ(1, 1000)))
    /\ RLe(arg.Vu, ret.Vc) => REq(ret.Vs, R(0))
    /\ ~RLe(arg.Vu, ret.Vc) => REq(ret.Vs, RSub(arg.Vu, ret.Vc))
    /\ RLe(R(0), ret.Vs)
    /\ RLe(RSub(arg.Vu, RAdd(ret.Vc, ret.Vs)),
           RMul(RQ(1, 1000000000), RAbs(arg.Vu)))

\* C24 as stated: calc_shear_check returns a Vs of 0 when Vu <= Vc and of
\* Vu - Vc otherwise, so that Vs >= 0 and Vc + Vs >= Vu for every input,
\* and its flag is True when no stirrups are required (Vu <= Vc) and False
\* when they are
C24_FlagTellsStirrups ==
    call \in CalcShearCalls =>
        /\ CalcShearValues
        /\ ret.ok <=> RLe(arg.Vu, ret.Vc)

\* C24, amended: for fck >= 0 calc_shear_check returns a Vs of 0 when
\* Vu <= Vc and of Vu - Vc > 0 otherwise, so that Vs >= 0 and
\* Vc + Vs >= Vu; its flag is True in both cases, and only Vs tells
\* whether stirrups are required
C24_FlagAlwaysTrue ==
    (call \in CalcShearCalls /\ RSign(arg.fck) >= 0) =>
        /\ CalcShearValues
        /\ ret.ok
        /\ RLe(arg.Vu, ret.Vc) <=> RSign(ret.Vs) = 0

\* calc_shear_check has returned True with a Vs > 0: stirrups are required
C24_Witness ==
    /\ call \in CalcShearCalls
    /\ ret.kind = "tuple"
    /\ ret.ok
    /\ RSign(ret.Vs) > 0


(***************************************************************************)
(* The strain is never asked for a neutral axis of depth 0                 *)
(***************************************************************************)
\* C26: on rows with positive b, fck and fy, no iteration of either docx
\* generator reaches compute_tensile_strain with c = 0: where the call is
\* made, for the strain or again for the crack width, As_use > 0 and c # 0,
\* and the call never ends an iteration with a ZeroDivisionError
C26_StrainNeverCalledWithCZero ==
    run.driver \in DocxDrivers =>
        \A r \in Iterations :
            /\ \A j \in DOMAIN r.trace :
                   r.trace[j].fn = "compute_tensile_strain" =>
                       /\ RSign(r.As_use.v) > 0
                       /\ RSign(r.c.v) # 0
            /\ (r.kind = "raised" /\ r.line \in {75, 82, 128}) =>
                   r.error # ZeroDivisionErrorVal

\* rcT-beamDesigner(gpt)_2.py has reported a section for which it called
\* compute_tensile_strain twice, and a section without steel (As_use = 0)
\* for which it did not call it
C26_Witness ==
    /\ run.driver = "rcT-beamDesigner(gpt)_2"
    /\ Len(run.report) = 2
    /\ Cardinality({j \in DOMAIN run.report[1].trace :
                        run.report[1].trace[j].fn = "compute_tensile_strain"})
           = 2
    /\ RSign(run.report[2].As_use.v) = 0
    /\ \A j \in DOMAIN run.report[2].trace :
           run.report[2].trace[j].fn # "compute_tensile_strain"


(***************************************************************************)
(* The three solvers of the simplified formulation                         *)
(***************************************************************************)
\* what the three solvers make of the same Mu and phi on the section geo:
\* the same area from each, or its NoSolution outcome from each
SolversAgree(g, g2, rc) ==
    \/ /\ g = ValueErrorVal
       /\ g2 = NoneVal
       /\ rc = ValueErrorVal
    \/ /\ IsFloat(g)
       /\ IsFloat(g2)
       /\ rc.kind = "tuple"
       /\ REq(g.v, g2.v)
       /\ REq(g.v, rc.A_req)

\* C27: for b, d, fck, fy, phi > 0 and every Mu, gptils.required_rebar_area,
\* gptils_2.required_rebar_area and rcDesigner.calculate_required_As all
\* return the same area, or all yield NoSolution (ValueError, None,
\* ValueError)
C27_SimplifiedSolversAgree ==
    call \in {"gptils.required_rebar_area", "gptils_2.required_rebar_area",
              "rcDesigner.calculate_required_As"} =>
        SolversAgree(
            gptils_required_rebar_area(arg.Mu, geo.b, geo.d, geo.fck,
                                       geo.fy, arg.phi),
            gptils_2_required_rebar_area(arg.Mu, geo.b, geo.d, geo.fck,
                                         geo.fy, arg.phi),
            calculate_required_As(arg.Mu, geo.d, geo.b, geo.fck, geo.fy,
                                  arg.phi))


(***************************************************************************)
(* A section that passes the neutral axis check has yielded                *)
(***************************************************************************)
\* the calls of compute_tensile_strain with 0 < c <= 0.4 * d that returned
StrainCallsWithinCmax ==
    /\ call \in TensileStrainCalls
    /\ RSign(arg.c) > 0
    /\ RLe(arg.c, RMul(RQ(4, 10), arg.d))
    /\ IsFloat(ret)

\* the iterations of the docx generators whose neutral axis check passed
\* with a c > 0
PassedNeutralAxis(r) ==
    /\ r.c_ok
    /\ IsFloat(r.c)
    /\ RSign(r.c.v) > 0
    /\ IsFloat(r.eps_s)

\* C28 as stated: whenever 0 < c <= 0.4 * d, compute_tensile_strain(d, c)
\* with eps_cu = 0.0033 returns at least 0.00495, so that with fy = 1100
\* (and below) the strain is reported as yielded
C28_StrainAtLeast00495 ==
    /\ StrainCallsWithinCmax =>
           /\ RLe(RQ(495, 100000), ret.v)
           /\ is_yield(R(1100), ret.v)
    /\ run.driver \in DocxDrivers =>
           \A r \in Iterations : PassedNeutralAxis(r) => r.is_yield

\* C28 amended: whenever 0 < c <= 0.4 * d, compute_tensile_strain(d, c,
\* eps_cu) returns at least 1.5 times the eps_cu it was given up to the
\* rounding of its float operations (one part in 10^9 at the most; with
\* d = 1942 and c = 0.4 * d it returns 0.004949999999999999), which for
\* the double 0.0033 is just below 0.00495; the strain is at or above the
\* yield strain of every fy <= 1099.99, and the docx generators report
\* every section that passed the neutral axis check with c > 0 as yielded
C28_StrainAtLeastOneAndAHalfEpsCu ==
    /\ StrainCallsWithinCmax =>
           /\ RLe(RMul(RMul(RQ(15, 10), arg.eps_cu),
                       RQ(999999999, 1000000000)), ret.v)
           /\ is_yield(RQ(109999, 100), ret.v)
    /\ run.driver \in DocxDrivers =>
           \A r \in Iterations : PassedNeutralAxis(r) => r.is_yield

\* compute_tensile_strain has been called at the limit c = 0.4 * d with the
\* double 0.0033 and has returned 1.5 times it, less than 0.00495
C28_Witness ==
    /\ StrainCallsWithinCmax
    /\ REq(arg.c, RMul(RQ(4, 10), arg.d))
    /\ REq(arg.eps_cu, RQ(33, 10000))
    /\ REq(ret.v, RMul(RQ(15, 10), RQ(33, 10000)))
    /\ RLt(ret.v, RQ(495, 100000))


(***************************************************************************)
(* The header of the first page of a section                               *)
(***************************************************************************)
\* C29: the header at the top of the first page of every section shows the
\* title of that section, never the title of the section before it or the
\* default
C29_HeaderShowsOwnTitle ==
    \A k \in DOMAIN pdf.pages :
        pdf.pages[k].first =>
            pdf.pages[k].header = section_title(pdf.pages[k].section)


(***************************************************************************)
(* The required steel area of the former PDF report builder               *)
(***************************************************************************)
\* C30: for Mu > 0 and positive fy, d, fck and b, calculate_required_rebar
\* of rcT-beamDesigner(xlsx2pdf)_old.py returns an area As > 0 and a
\* neutral axis depth c > 0, never a negative area
C30_RequiredRebarPositive ==
    (/\ call = "xlsx2pdf_old.calculate_required_rebar"
     /\ RSign(arg.Mu) > 0) =>
        /\ ret.kind = "tuple"
        /\ RSign(ret.As) > 0
        /\ RSign(ret.c) > 0

=============================================================================
